---------------------------- MODULE Spec2Model ----------------------------
(***************************************************************************)
(* The hybrid question-answering workflow of agent/graph_hybrid.py: the    *)
(* LangGraph state machine router -> (retriever -> planner) ->             *)
(* sql_generator -> executor -> synthesizer -> validator -> (repair ...),  *)
(* together with the text algorithms its nodes run (keyword routing,       *)
(* route normalisation, SQL clean-up, table citation extraction, answer    *)
(* format validation, repair routing).                                     *)
(*                                                                         *)
(* Python strings are modelled as sequences of one-character strings, so   *)
(* that lower(), strip(), `in`, startswith() and the regular expressions   *)
(* are computed character by character as the interpreter computes them.   *)
(* A Python value that may be None is a record [t, v]: t = "none", or      *)
(* t = "str" with the text in v, or t = "list" with the items in v, or     *)
(* t = "num" with v the number in hundredths.                              *)
(***************************************************************************)
EXTENDS Integers, Sequences, FiniteSets, TLC

(***************************************************************************)
(* Text primitives (Python str methods and the re patterns of the source)  *)
(***************************************************************************)

\* the backtick character, which the TLA+ lexer does not admit inside a string
BT == "backtick"

\* str.isspace() characters that occur in the model's texts
Whitespace == {" ", "\n", "\t", "\r"}

\* the characters matched by \d
Digits == {"0", "1", "2", "3", "4", "5", "6", "7", "8", "9"}

UpperCase ==
    <<"A","B","C","D","E","F","G","H","I","J","K","L","M",
      "N","O","P","Q","R","S","T","U","V","W","X","Y","Z">>

LowerCase ==
    <<"a","b","c","d","e","f","g","h","i","j","k","l","m",
      "n","o","p","q","r","s","t","u","v","w","x","y","z">>

\* the lowercase letter of each uppercase letter
LowerOf == [c \in {UpperCase[i] : i \in 1..26} |->
              LowerCase[CHOOSE i \in 1..26 : UpperCase[i] = c]]

\* str.lower() on one character
lower_char(c) == IF c \in DOMAIN LowerOf THEN LowerOf[c] ELSE c

\* str.lower()
lower(s) == [i \in 1..Len(s) |-> lower_char(s[i])]

\* the uppercase letter of each lowercase letter
UpperOf == [c \in {LowerCase[i] : i \in 1..26} |->
              UpperCase[CHOOSE i \in 1..26 : LowerCase[i] = c]]

\* str.upper() on one character
upper_char(c) == IF c \in DOMAIN UpperOf THEN UpperOf[c] ELSE c

\* str.upper()
upper(s) == [i \in 1..Len(s) |-> upper_char(s[i])]

\* t occurs in s at offset i (0-based): s[i:i+len(t)] == t
occurs_at(s, t, i) ==
    /\ i >= 0
    /\ i + Len(t) <= Len(s)
    /\ \A j \in 1..Len(t) : s[i + j] = t[j]

\* Python `t in s`
contains(s, t) == \E i \in 0..(Len(s) - Len(t)) : occurs_at(s, t, i)

\* str.find(t): the least offset at which t occurs, -1 if none
find(s, t) ==
    IF contains(s, t)
    THEN CHOOSE i \in 0..(Len(s) - Len(t)) :
            /\ occurs_at(s, t, i)
            /\ \A k \in 0..(i - 1) : ~occurs_at(s, t, k)
    ELSE -1

\* str.startswith / str.endswith
startswith(s, p) == occurs_at(s, p, 0)

endswith(s, p) == occurs_at(s, p, Len(s) - Len(p))

\* s[i:] with a 0-based offset
drop(s, i) == SubSeq(s, i + 1, Len(s))

\* str.lstrip(chars) / str.rstrip(chars) for a set of characters
lstrip_chars(s, cs) ==
    LET keep == {i \in 1..Len(s) : s[i] \notin cs}
    IN  IF keep = {} THEN <<>>
        ELSE SubSeq(s, CHOOSE i \in keep : \A k \in keep : i <= k, Len(s))

rstrip_chars(s, cs) ==
    LET keep == {i \in 1..Len(s) : s[i] \notin cs}
    IN  IF keep = {} THEN <<>>
        ELSE SubSeq(s, 1, CHOOSE i \in keep : \A k \in keep : i >= k)

strip_chars(s, cs) == rstrip_chars(lstrip_chars(s, cs), cs)

\* str.strip()
strip(s) == strip_chars(s, Whitespace)

\* sep.join(items)
RECURSIVE join(_, _)
join(sep, items) ==
    IF items = <<>> THEN <<>>
    ELSE IF Len(items) = 1 THEN items[1]
    ELSE items[1] \o sep \o join(sep, Tail(items))

\* re.search(r'\d+', s) finds a match
has_digit_run(s) == \E i \in 1..Len(s) : s[i] \in Digits

\* re.search(r'\d+\.\d+', s) finds a match
has_decimal_run(s) ==
    \E i \in 2..(Len(s) - 1) :
        s[i] = "." /\ s[i - 1] \in Digits /\ s[i + 1] \in Digits

(***************************************************************************)
(* Python values                                                           *)
(***************************************************************************)

None == [t |-> "none", v |-> <<>>]

Str(s) == [t |-> "str", v |-> s]

List(items) == [t |-> "list", v |-> items]

Num(n) == [t |-> "num", v |-> n]

\* bool(x): None, "", [] and 0 are falsy
truthy(x) ==
    CASE x.t = "none" -> FALSE
      [] x.t = "num" -> x.v # 0
      [] OTHER -> x.v # <<>>

\* str(x) for None and for a string
str(x) == IF x.t = "none" THEN <<"N","o","n","e">> ELSE x.v

(***************************************************************************)
(* Routing (route_node)                                                    *)
(***************************************************************************)

\* keyword_route with the policy/calendar test taken before the
\* "average order value" test
keyword_route_policy_first(q) ==
    IF contains(lower(q), <<"p","o","l","i","c","y">>) \/ contains(lower(q), <<"c","a","l","e","n","d","a",
                                                                "r">>)
    THEN "rag"
    ELSE IF contains(lower(q), <<"a","v","e","r","a","g","e"," ","o","r","d","e","r"," ",
                                 "v","a","l","u","e">>)
    THEN "hybrid"
    ELSE "sql"

\* the keyword fallback over the question text
keyword_route(q) ==
    IF contains(lower(q), <<"a","v","e","r","a","g","e"," ","o","r","d","e","r"," ","v","a",
                            "l","u","e">>)
    THEN "hybrid"
    ELSE IF contains(lower(q), <<"p","o","l","i","c","y">>) \/ contains(lower(q), <<"c","a","l","e","n",
                                                                     "d","a","r">>)
    THEN "rag"
    ELSE "sql"

\* normalize_route with the hybrid test taken before the rag test
normalize_route_hybrid_first(out) ==
    LET r == strip(lower(out))
    IN  IF contains(r, <<"h","y","b","r","i","d">>) THEN "hybrid"
        ELSE IF contains(r, <<"r","a","g">>) THEN "rag"
        ELSE "sql"

\* normalisation of a non-empty router output
normalize_route(out) ==
    LET r == strip(lower(out))
    IN  IF contains(r, <<"r","a","g">>) THEN "rag"
        ELSE IF contains(r, <<"h","y","b","r","i","d">>) THEN "hybrid"
        ELSE "sql"

\* the route route_node stores, given the service state and the outcome of
\* the RouterModule call (kind "raise", or kind "ok" with result.route in val)
route_of(q, service, r) ==
    IF service = "none" THEN keyword_route(q)
    ELSE IF r.kind = "ok" /\ truthy(r.val) THEN normalize_route(r.val.v)
    ELSE keyword_route(q)

\* an edge out of the router that always retrieves
route_decision_always_retrieves(rt) == "retriever"

\* conditional edge after the router
route_decision(rt) == IF rt \in {"rag", "hybrid"} THEN "retriever" ELSE "sql_generator"

\* conditional edge after the planner
after_planner_decision(rt) == IF rt = "hybrid" THEN "sql_generator" ELSE "synthesizer"

(***************************************************************************)
(* SQL clean-up (sql_gen_node)                                             *)
(***************************************************************************)

\* clean_query.split(fence)[1]: the text between the first fence and the next
\* one, or up to the end when there is no second fence
fence_body(s) ==
    LET fence == <<BT, BT, BT>>
        rest  == drop(s, find(s, fence) + 3)
    IN  IF contains(rest, fence) THEN SubSeq(rest, 1, find(rest, fence)) ELSE rest

\* step 1: the content of the first fenced block, without a leading "sql" tag
strip_fence(s) ==
    IF contains(s, <<BT, BT, BT>>)
    THEN IF startswith(fence_body(s), <<"s","q","l">>)
         THEN drop(fence_body(s), 3)
         ELSE fence_body(s)
    ELSE s

\* the pattern SELECT\s+ (IGNORECASE) matches at offset i: re.search takes the
\* least such offset, and the rest of the pattern takes the text to the end
select_at(s, i) ==
    /\ occurs_at(lower(s), <<"s","e","l","e","c","t">>, i)
    /\ i + 6 < Len(s)
    /\ s[i + 7] \in Whitespace

\* step 2: the text from the first SELECT<whitespace> on, or s when none
from_select(s) ==
    IF \E i \in 0..Len(s) : select_at(s, i)
    THEN drop(s, CHOOSE i \in 0..Len(s) :
                    select_at(s, i) /\ \A k \in 0..(i - 1) : ~select_at(s, k))
    ELSE s

\* the whole clean-up of a non-empty raw output
clean_sql(raw) ==
    LET fenced   == strip_fence(strip(raw))
        selected == from_select(fenced)
        trimmed  == lstrip_chars(strip(selected), {"]", " ", "\n", "\t"})
    IN  Append(rstrip_chars(trimmed, {";"}), ";")

\* the sentinel queries stored when no query could be generated
SQL_LM_NOT_CONFIGURED ==
    <<"S","E","L","E","C","T"," ","'","E","r","r","o","r",":"," ","L","M"," ","n","o","t",
      " ","c","o","n","f","i","g","u","r","e","d","'",";">>

SQL_RETURNED_NONE ==
    <<"S","E","L","E","C","T"," ","'","E","r","r","o","r",":"," ","S","Q","L"," ","g","e",
      "n","e","r","a","t","i","o","n"," ","r","e","t","u","r","n","e","d"," ","N","o","n",
      "e","'",";">>

SQL_GENERATION_FAILED ==
    <<"S","E","L","E","C","T"," ","'","E","r","r","o","r",":"," ","D","S","P","y"," ","S",
      "Q","L"," ","g","e","n","e","r","a","t","i","o","n"," ","f","a","i","l","e","d","'",
      ";">>

(***************************************************************************)
(* Table citation extraction (execute_sql_node)                            *)
(***************************************************************************)

\* FROM or JOIN, case-insensitively, at offset i
keyword_at(s, i) ==
    \/ occurs_at(lower(s), <<"f","r","o","m">>, i)
    \/ occurs_at(lower(s), <<"j","o","i","n">>, i)

\* the offset of the first character at or after offset i that is not in cs
\* (Len(s) when there is none)
RECURSIVE skip_while(_, _, _)
skip_while(s, i, cs) ==
    IF i < Len(s) /\ s[i + 1] \in cs THEN skip_while(s, i + 1, cs) ELSE i

\* the offset of the first character at or after offset i that is in cs
\* (Len(s) when there is none)
RECURSIVE skip_until(_, _, _)
skip_until(s, i, cs) ==
    IF i < Len(s) /\ s[i + 1] \notin cs THEN skip_until(s, i + 1, cs) ELSE i

\* re.findall(r'(?:FROM|JOIN)\s+(?:"([^"]+)"|([^\s,]+))', s, IGNORECASE),
\* scanning from offset i: the group that matched in each match, in order
RECURSIVE find_tables(_, _)
find_tables(s, i) ==
    IF i + 4 > Len(s) THEN <<>>
    ELSE IF ~keyword_at(s, i) THEN find_tables(s, i + 1)
    ELSE LET j == skip_while(s, i + 4, Whitespace)
             q == skip_until(s, j + 1, {"\""})
             b == skip_until(s, j, Whitespace \cup {","})
         IN  IF j = i + 4 THEN find_tables(s, i + 1)
             ELSE IF j < Len(s) /\ s[j + 1] = "\"" /\ q > j + 1 /\ q < Len(s)
             THEN <<SubSeq(s, j + 2, q)>> \o find_tables(s, q + 1)
             ELSE IF b > j
             THEN <<SubSeq(s, j + 1, b)>> \o find_tables(s, b)
             ELSE find_tables(s, i + 1)

\* the names kept for citation: the matches that are not AS, ON or WHERE
table_names(q) ==
    LET found == find_tables(q, 0)
    IN  {found[k] : k \in {n \in 1..Len(found) :
            upper(found[n]) \notin {<<"A","S">>, <<"O","N">>, <<"W","H","E","R","E">>}}}

\* list(set(names)): the names in any order
orderings(S) ==
    {f \in [1..Cardinality(S) -> S] : \A a, b \in 1..Cardinality(S) : a # b => f[a] # f[b]}

(***************************************************************************)
(* Answer format validation (validate_node)                                *)
(***************************************************************************)

\* the error messages of the format checks
format_error(answer, what, hint) ==
    <<"A","n","s","w","e","r"," ","'">> \o str(answer) \o <<"'">> \o what
    \o <<" ","a","s"," ","r","e","q","u","i","r","e","d"," ","b","y"," ","h","i","n","t",
         " ","'">> \o hint \o <<"'", ".">>

\* validation_errors with the hint tested before the empty-answer check
validation_errors_hint_first(answer, hint) ==
    IF hint = <<>> THEN <<>>
    ELSE IF ~truthy(answer) THEN << <<"F","i","n","a","l"," ","a","n","s","w","e","r"," ",
                                      "i","s"," ","e","m","p","t","y",".">> >>
    ELSE <<>>

\* the findings if validate_node ran no check at all
validation_errors_skipped(answer, hint) == <<>>

\* the findings validate_node appends when errors is empty on entry
\* (hint is the lowercased format hint)
validation_errors(answer, hint) ==
    IF ~truthy(answer)
    THEN << <<"F","i","n","a","l"," ","a","n","s","w","e","r"," ","i","s"," ","e","m","p",
              "t","y",".">> >>
    ELSE IF hint = <<>> THEN <<>>
    ELSE IF contains(hint, <<"i","n","t">>)
    THEN IF ~has_digit_run(str(answer))
         THEN <<format_error(answer, <<" ","d","o","e","s"," ","n","o","t"," ","c","o","n",
                                       "t","a","i","n"," ","a","n"," ","i","n","t","e","g",
                                       "e","r">>, hint)>>
         ELSE <<>>
    ELSE IF contains(hint, <<"f","l","o","a","t">>)
    THEN IF ~has_decimal_run(str(answer)) /\ ~has_digit_run(str(answer))
         THEN <<format_error(answer, <<" ","d","o","e","s"," ","n","o","t"," ","c","o","n",
                                       "t","a","i","n"," ","a"," ","f","l","o","a","t","/",
                                       "n","u","m","b","e","r">>, hint)>>
         ELSE <<>>
    ELSE IF contains(hint, <<"l","i","s","t">>)
    THEN IF ~(startswith(strip(str(answer)), <<"[">>) /\ endswith(strip(str(answer)), <<"]">>))
         THEN <<format_error(answer, <<" ","d","o","e","s"," ","n","o","t"," ","l","o","o",
                                       "k"," ","l","i","k","e"," ","a"," ","l","i","s","t">>, hint)>>
         ELSE <<>>
    ELSE IF contains(hint, <<"j","s","o","n">>) \/ contains(hint, <<"{">>)
    THEN IF ~(startswith(strip(str(answer)), <<"{">>) /\ endswith(strip(str(answer)), <<"}">>))
         THEN <<format_error(answer, <<" ","d","o","e","s"," ","n","o","t"," ","l","o","o",
                                       "k"," ","l","i","k","e"," ","a"," ","J","S","O","N",
                                       " ","o","b","j","e","c","t">>, hint)>>
         ELSE <<>>
    ELSE <<>>

(***************************************************************************)
(* Repair (repair_node and the edges around it)                            *)
(***************************************************************************)

\* the repair budget tested by needs_repair
MaxRepairCount == 2

\* needs_repair with the budget test off by one (count <= 2)
needs_repair_off_by_one(errs, count) ==
    IF errs # <<>> /\ count <= MaxRepairCount THEN "repair" ELSE "Done"

\* conditional edge after the validator
needs_repair(errs, count) ==
    IF errs # <<>> /\ count < MaxRepairCount THEN "repair" ELSE "Done"

\* feedback that does not carry the errors
repair_feedback_without_errors(errs) == <<"P","r","e","v","i","o","u","s"," ","a","t","t","e","m","p","t"," ","f","a","i","l","e","d",".">>

\* the feedback repair_node builds from the errors of the failed attempt
repair_feedback(errs) ==
    IF errs # <<>>
    THEN <<"P","r","e","v","i","o","u","s"," ","a","t","t","e","m","p","t"," ","f","a","i",
           "l","e","d"," ","w","i","t","h"," ","e","r","r","o","r","s",":"," ">> \o join(<<";", " ">>, errs)
    ELSE <<"P","r","e","v","i","o","u","s"," ","a","t","t","e","m","p","t"," ","f","a","i",
           "l","e","d",".">>

\* conditional edge after repair
repair_routing(fb) ==
    IF \/ contains(lower(fb), <<"s","q","l">>)
       \/ contains(lower(fb), <<"e","x","e","c","u","t","i","o","n">>)
       \/ contains(lower(fb), <<"d","a","t","a","b","a","s","e">>)
       \/ contains(lower(fb), <<"s","y","n","t","a","x">>)
    THEN "sql_generator"
    ELSE "synthesizer"

(***************************************************************************)
(* The database tool (SqliteTool)                                          *)
(***************************************************************************)

\* an operation that raised exception exc with text msg / that returned val
raises(exc, msg) == [kind |-> "raise", exc |-> exc, val |-> msg]

returns(val) == [kind |-> "ok", exc |-> "", val |-> val]

\* ord(c) for the characters of the table names
ord(c) ==
    IF c = " " THEN 32
    ELSE IF c \in DOMAIN LowerOf THEN 64 + (CHOOSE i \in 1..26 : UpperCase[i] = c)
    ELSE 96 + (CHOOSE i \in 1..26 : LowerCase[i] = c)

\* a < b for two strings (code point order)
RECURSIVE str_lt(_, _)
str_lt(a, b) ==
    IF b = <<>> THEN FALSE
    ELSE IF a = <<>> THEN TRUE
    ELSE IF a[1] = b[1] THEN str_lt(Tail(a), Tail(b))
    ELSE ord(a[1]) < ord(b[1])

\* items with x put before the first item greater than x
RECURSIVE insert_sorted(_, _)
insert_sorted(x, items) ==
    IF items = <<>> THEN <<x>>
    ELSE IF str_lt(x, items[1]) THEN <<x>> \o items
    ELSE <<items[1]>> \o insert_sorted(x, Tail(items))

\* sorted with no sorting at all
unsorted(items) == items

\* sorted(items) for a list of strings
RECURSIVE sorted(_)
sorted(items) ==
    IF items = <<>> THEN <<>>
    ELSE insert_sorted(items[Len(items)], sorted(SubSeq(items, 1, Len(items) - 1)))

\* self._allowed_tables
allowed_tables ==
    { <<"O","r","d","e","r","s">>, <<"o","r","d","e","r","s">>, <<"O","r","d","e","r"," ","D","e","t","a","i","l","s">>, <<"o","r","d","e","r","_","i","t",
                                                         "e","m","s">>,
      <<"P","r","o","d","u","c","t","s">>, <<"p","r","o","d","u","c","t","s">>, <<"C","u","s","t","o","m","e","r","s">>, <<"c","u","s","t","o","m","e","r","s">>,
      <<"C","a","t","e","g","o","r","i","e","s">>, <<"c","a","t","e","g","o","r","i","e","s">>, <<"S","u","p","p","l","i","e","r","s">>, <<"s","u","p","p","l","i","e",
                                                             "r","s">> }

\* the list get_all_schemas sorts
canonical_tables ==
    << <<"O","r","d","e","r","s">>, <<"O","r","d","e","r"," ","D","e","t","a","i","l","s">>, <<"P","r","o","d","u","c","t","s">>, <<"C","u","s","t","o","m","e","r",
                                                            "s">>,
       <<"C","a","t","e","g","o","r","i","e","s">>, <<"S","u","p","p","l","i","e","r","s">> >>

\* the CREATE statement sqlite_master holds for a table
table_sql(name) ==
    <<"C","R","E","A","T","E"," ","T","A","B","L","E"," ","[">> \o name \o <<"]","(","[","I","d","]"," ","I","N","T","E","G","E",
                                      "R",")">>

\* str.replace(c, '') for one character c
remove_char(s, c) == SelectSeq(s, LAMBDA x : x # c)

\* what entering `with SqliteTool()` does for a database file that is absent
\* ("missing"), present but not a database ("corrupt": connect succeeds and
\* _create_views raises) or healthy ("ok"); opened tells whether self._conn was set
connect_outcome(database) ==
    CASE database = "missing" ->
            [kind |-> "raise", exc |-> "FileNotFoundError", opened |-> FALSE,
             val |-> <<"D","a","t","a","b","a","s","e"," ","f","i","l","e"," ","n","o","t",
                       " ","f","o","u","n","d"," ","a","t"," ","d","a","t","a","/","n","o",
                       "r","t","h","w","i","n","d",".","s","q","l","i","t","e">>]
      [] database = "corrupt" ->
            [kind |-> "raise", exc |-> "sqlite3.DatabaseError", opened |-> TRUE,
             val |-> <<"f","i","l","e"," ","i","s"," ","n","o","t"," ","a"," ","d","a","t",
                       "a","b","a","s","e">>]
      [] OTHER ->
            [kind |-> "ok", exc |-> "", opened |-> TRUE, val |-> <<>>]

\* get_table_schema with the connection tested before the allow-list
table_schema_connection_first(name, connection, present) ==
    IF connection = "none"
    THEN raises("ConnectionError", <<"D","a","t","a","b","a","s","e"," ","i","s"," ","n",
                                     "o","t"," ","c","o","n","n","e","c","t","e","d",".">>)
    ELSE IF name \notin allowed_tables
    THEN raises("ValueError", <<"A","c","c","e","s","s"," ","t","o"," ","t","a","b","l","e",
                                " ","'">> \o name \o <<"'"," ","i","s"," ","n",
                                                                   "o","t"," ","a","l","l",
                                                                   "o","w","e","d",".">>)
    ELSE returns(table_sql(name))

\* get_table_schema(name) on a tool whose self._conn is connection ("none",
\* "open" or "closed") over a database holding the tables present
table_schema(name, connection, present) ==
    IF name \notin allowed_tables
    THEN raises("ValueError", <<"A","c","c","e","s","s"," ","t","o"," ","t","a","b","l","e",
                                " ","'">> \o name \o <<"'"," ","i","s"," ","n",
                                                                   "o","t"," ","a","l","l",
                                                                   "o","w","e","d",".">>)
    ELSE IF connection = "none"
    THEN raises("ConnectionError", <<"D","a","t","a","b","a","s","e"," ","i","s"," ","n",
                                     "o","t"," ","c","o","n","n","e","c","t","e","d",".">>)
    ELSE IF connection = "closed"
    THEN raises("sqlite3.ProgrammingError", <<"C","a","n","n","o","t"," ","o","p","e","r",
                                              "a","t","e"," ","o","n"," ","a"," ","c","l",
                                              "o","s","e","d"," ","d","a","t","a","b","a",
                                              "s","e",".">>)
    ELSE IF name \in present
    THEN returns(remove_char(remove_char(table_sql(name), "["), "]"))
    ELSE raises("ValueError", <<"T","a","b","l","e"," ","'">> \o name \o <<"'"," ","n","o","t"," ","f","o",
                                                         "u","n","d"," ","i","n"," ","t",
                                                         "h","e"," ","d","a","t","a","b",
                                                         "a","s","e"," ","s","c","h","e",
                                                         "m","a",".">>)

\* get_all_schemas(): the schemas of the sorted canonical tables joined by a
\* blank line, or the first failure among them
all_schemas(connection, present) ==
    LET names == sorted(canonical_tables)
        outs  == [i \in 1..Len(names) |-> table_schema(names[i], connection, present)]
        bad   == {i \in 1..Len(names) : outs[i].kind = "raise"}
    IN  IF bad # {}
        THEN outs[CHOOSE i \in bad : \A k \in bad : i <= k]
        ELSE returns(join(<<"\n", "\n">>, [i \in 1..Len(names) |-> outs[i].val]))

(***************************************************************************)
(* The retrieval index (BM25Retriever)                                     *)
(***************************************************************************)

\* content.split("\n\n"): the pieces between blank-line separators
RECURSIVE split_blank(_)
split_blank(s) ==
    IF ~contains(s, <<"\n", "\n">>) THEN <<s>>
    ELSE <<SubSeq(s, 1, find(s, <<"\n", "\n">>))>>
         \o split_blank(drop(s, find(s, <<"\n", "\n">>) + 2))

\* [chunk.strip() for chunk in content.split("\n\n") if chunk.strip()]
chunks_of(content) ==
    LET pieces == split_blank(content)
        kept   == SelectSeq([i \in 1..Len(pieces) |-> strip(pieces[i])],
                            LAMBDA c : c # <<>>)
    IN  kept

\* Path.stem: the file name without its last suffix; a name whose only dot is
\* its first or its last character has no suffix
stem(name) ==
    LET dots == {i \in 1..Len(name) : name[i] = "."}
        last == CHOOSE i \in dots : \A k \in dots : k <= i
    IN  IF dots = {} \/ last = 1 \/ last = Len(name) THEN name
        ELSE SubSeq(name, 1, last - 1)

\* str(i) for a chunk index
index_text(i) == <<(<<"0", "1", "2", "3", "4", "5", "6", "7", "8", "9">>)[i + 1]>>

\* the ids of the chunks of one file: f"{filepath.stem}::chunk{i}"
chunk_ids(name, n) ==
    [i \in 1..n |-> stem(name) \o <<":",":","c","h","u","n","k">> \o index_text(i - 1)]

\* _load_and_chunk_documents over the files the glob yields, in that order: a
\* file that cannot be read (content None) is skipped
RECURSIVE load_and_chunk_documents(_)
load_and_chunk_documents(files) ==
    IF files = <<>> THEN [documents |-> <<>>, doc_ids |-> <<>>]
    ELSE LET rest   == load_and_chunk_documents(Tail(files))
             chunks == IF files[1].content.t = "str" THEN chunks_of(files[1].content.v)
                       ELSE <<>>
         IN  [documents |-> chunks \o rest.documents,
              doc_ids   |-> chunk_ids(files[1].name, Len(chunks)) \o rest.doc_ids]

\* the files _load_and_chunk_documents walks: none unless the path is a directory
globbed(corpus_dir) == IF corpus_dir.path = "dir" THEN corpus_dir.files ELSE <<>>

\* order with chunk i put before the chunks whose score equals its own
RECURSIVE insert_desc_ties_reversed(_, _, _)
insert_desc_ties_reversed(i, order, doc_scores) ==
    IF order = <<>> THEN <<i>>
    ELSE IF doc_scores[order[1]] > doc_scores[i]
    THEN <<order[1]>> \o insert_desc_ties_reversed(i, Tail(order), doc_scores)
    ELSE <<i>> \o order

\* order with chunk i put after every chunk whose score is not below its own
RECURSIVE insert_desc(_, _, _)
insert_desc(i, order, doc_scores) ==
    IF order = <<>> THEN <<i>>
    ELSE IF doc_scores[order[1]] >= doc_scores[i]
    THEN <<order[1]>> \o insert_desc(i, Tail(order), doc_scores)
    ELSE <<i>> \o order

\* sorted(range(n), key=lambda i: doc_scores[i], reverse=True): a stable sort
RECURSIVE ranking(_, _)
ranking(doc_scores, n) ==
    IF n = 0 THEN <<>>
    ELSE insert_desc(n, ranking(doc_scores, n - 1), doc_scores)

\* search(query, top_k) on an index whose bm25 gives doc_scores for the query
search_results(index, doc_scores, top_k) ==
    IF index.bm25 = "none" THEN <<>>
    ELSE LET k == IF top_k < Len(index.documents) THEN top_k ELSE Len(index.documents)
         IN  IF k = 0 THEN <<>>
             ELSE LET top  == SubSeq(ranking(doc_scores, Len(index.documents)), 1, k)
                      kept == SelectSeq(top, LAMBDA i : doc_scores[i] > 0)
                  IN  [p \in 1..Len(kept) |->
                         [id |-> index.doc_ids[kept[p]],
                          content |-> index.documents[kept[p]],
                          score |-> doc_scores[kept[p]]]]

(***************************************************************************)
(* The run state (AgentState), the environment and the observers           *)
(***************************************************************************)

VARIABLES
    pc,            \* the node about to run; "Done" is END, "Aborted" an exception out of invoke
    lm,            \* dspy.settings.lm: "none" or "configured"
    db,            \* the database file: "ok" or "missing"
    question, format_hint, route, constraints, rag_context, sql_query,
    sql_results, final_answer, citations, errors, feedback, repair_count,
    sql_tables, confidence, explanation,
    resp,          \* observer: the Completion Service call made by the node that just ran
    repairs,       \* observer: how many times repair_node has run
    execs,         \* observer: how many times execute_sql_node has run
    exec_errors,   \* observer: how many of them failed inside execute_sql
    last_exec,     \* observer: the query execute_sql_node ran last and whether it succeeded
    steps,         \* observer: how many nodes have run
    db_tables,     \* the tables of the database
    conn,          \* self._conn of the SqliteTool in use: "none", "open" or "closed"
    tool_pc,       \* where the tool's user is: "new", "in_scope", "unwinding", "exited", "failed"
    ret,           \* the outcome of the tool's last operation
    open_conns,    \* observer: connections opened and not closed
    corpus,        \* the docs path: what is there, and the *.md files in glob order
    retriever,     \* the BM25Retriever: documents, doc_ids and whether bm25 is set
    scores,        \* the scores bm25.get_scores has given, by query
    last_search,   \* observer: the last search call and what it returned
    first_search,  \* observer: the first search call and what it returned
    f_in,          \* the lines of the batch input file
    line_no,       \* how many of them the batch driver has read
    f_out,         \* the lines written to the output file and flushed
    main_pc,       \* the batch driver: "none", "reading", "critical_error", "complete"
    sql_generator_module,  \* the global _sql_generator_module: 0 is None, n the n-th instance
    instances,     \* how many SQLGenerator instances were constructed
    optimized_path,\* scripts/sql_generator_optimized.json: "absent", "loadable", "unloadable"
    loader,        \* each thread's place in _load_sql_generator and its finished calls
    returned,      \* observer: the instances the loader has returned
    twin           \* a second run on the same inputs and outcomes: where it differs

vars ==
    <<pc, lm, db, question, format_hint, route, constraints, rag_context, sql_query,
      sql_results, final_answer, citations, errors, feedback, repair_count,
      sql_tables, confidence, explanation, resp, repairs, execs, exec_errors, last_exec, steps,
      db_tables, conn, tool_pc, ret, open_conns,
      corpus, retriever, scores, last_search, first_search,
      f_in, line_no, f_out, main_pc,
      sql_generator_module, instances, optimized_path, loader, returned, twin>>

\* the variables of the database tool's own state
tool_vars == <<db_tables, conn, tool_pc, ret>>

\* the variables of the retrieval index and its observers
index_vars == <<corpus, retriever, scores, last_search, first_search>>

\* the variables of the batch driver
batch_vars == <<f_in, line_no, f_out, main_pc>>

\* no batch is under study
no_batch ==
    /\ f_in = <<>>
    /\ line_no = 0
    /\ f_out = <<>>
    /\ main_pc = "none"

\* the variables of the SQL generator's loader
loader_vars == <<sql_generator_module, instances, optimized_path, loader, returned>>

\* the threads that may call the loader
LoaderThreads == {"t1", "t2"}

\* no loader call is under study
no_loader ==
    /\ sql_generator_module = 0
    /\ instances = 0
    /\ optimized_path = "absent"
    /\ loader = [t \in LoaderThreads |-> [pc |-> "idle", calls |-> 0]]
    /\ returned = {}

\* a second run that has not started
NoTwin == [pc |-> "none", sql_tables |-> <<>>, citations |-> <<>>]

\* no second run is under study
no_twin == twin = NoTwin

\* a BM25Retriever that was not constructed yet
NoRetriever == [documents |-> <<>>, doc_ids |-> <<>>, bm25 |-> "unset"]

\* no search was called yet
NoSearch == [query |-> <<>>, top_k |-> 0 - 1, out |-> <<>>]

\* no retriever under study: the docs path is absent and nothing was built
no_index ==
    /\ corpus = [path |-> "missing", files |-> <<>>]
    /\ retriever = NoRetriever
    /\ scores = <<>>
    /\ last_search = NoSearch
    /\ first_search = NoSearch

\* no tool operation was called yet
NoResult == [op |-> "none", arg |-> <<>>, conn |-> "none", kind |-> "none", exc |-> "", val |-> <<>>]

\* no Completion Service call was made
NoCall == [op |-> "none", kind |-> "none", val |-> None]

\* execute_sql_node has not run yet
NoExec == [ran |-> FALSE, ok |-> FALSE, query |-> <<>>]

\* a call that raised an exception with text msg
Raised(op, msg) == [op |-> op, kind |-> "raise", val |-> Str(msg)]

\* a call that returned val
Returned(op, val) == [op |-> op, kind |-> "ok", val |-> val]

(***************************************************************************)
(* Inputs: the questions and hints of a run, and what the collaborators    *)
(* (Completion Service, retrieval index, database) may answer              *)
(***************************************************************************)

\* the texts made of at most n of the given parts, one after the other
RECURSIVE texts_of(_, _)
texts_of(parts, n) ==
    IF n = 0 THEN {<<>>}
    ELSE texts_of(parts, n - 1) \cup {t \o p : t \in texts_of(parts, n - 1), p \in parts}

Questions ==
    { <<"t","o","p"," ","3"," ","p","r","o","d","u","c","t","s">>,
      <<"R","e","t","u","r","n"," ","P","o","l","i","c","y","?">>,
      <<"A","v","e","r","a","g","e"," ","O","r","d","e","r"," ","V","a","l","u","e"," ","p",
        "o","l","i","c","y">> }

FormatHints ==
    { <<>>,
      <<"i","n","t">>,
      <<"l","i","s","t","[","f","l","o","a","t","]">> }

\* the questions of the routing specification: up to MaxQuestionParts of these
MaxQuestionParts == 2

QuestionParts ==
    { <<"a","v","e","r","a","g","e"," ","o","r","d","e","r"," ","v","a","l","u","e">>,
      <<"A","v","e","r","a","g","e"," ","O","r","d","e","r"," ","V","a","l","u","e">>,
      <<"a","v","e","r","a","g","e"," ","o","r","d","e","r">>,
      <<" ","v","a","l","u","e">>,
      <<"p","o","l","i","c","y">>,
      <<"P","O","L","I","C","Y"," ">>,
      <<"C","a","l","e","n","d","a","r">>,
      <<"t","o","p"," ","3"," ","p","r","o","d","u","c","t","s">> }

RouteQuestions == texts_of(QuestionParts, MaxQuestionParts)

\* the router's outputs: up to MaxRouterOutputParts of these
MaxRouterOutputParts == 2

RouterOutputParts ==
    { <<"r","a","g">>,
      <<"R","A","G">>,
      <<"h","y","b","r","i","d">>,
      <<"H","y">>,
      <<"b","r","i","d">>,
      <<"s","q","l">>,
      <<" ">>,
      <<"\n">> }

RouterOutputs == texts_of(RouterOutputParts, MaxRouterOutputParts)

ExceptionTexts ==
    { <<"t","i","m","e","o","u","t">> }

ClassifyOutcomes ==
    {Raised("classify", e) : e \in ExceptionTexts}
    \cup {Returned("classify", None)}
    \cup {Returned("classify", Str(out)) : out \in RouterOutputs}

SearchResults ==
    { <<>>,
      <<[id |-> <<"p","o","l","i","c","y",":",":","c","h","u","n","k","0">>, content |-> <<"R","e","t","u","r","n","s",":"," ","1",
                                                    "4"," ","d","a","y","s",".">>]>> }

PlanOutcomes ==
    {Raised("plan", e) : e \in ExceptionTexts}
    \cup {Returned("plan", Str(<<"y","e","a","r"," ","1","9","9","7">>))}

GenerateOutcomes ==
    {Raised("generate", e) : e \in ExceptionTexts}
    \cup {Returned("generate", v) : v \in
            { None,
              Str(<<>>),
              Str(<<" ", "\n">>),
              Str(<<"S","E","L","E","C","T"," ","*"," ","F","R","O","M"," ","O","r","d","e",
                    "r","s">>),
              Str(<<BT,BT,BT,"s","q","l","\n","s","e","l","e","c","t"," ","a"," ","f","r",
                    "o","m"," ","\"","O","r","d","e","r"," ","D","e","t","a","i","l","s",
                    "\""," ","A","S"," ","d"," ","j","o","i","n"," ","P","r","o","d","u",
                    "c","t","s",";",";","\n",BT,BT,BT>>) }}

\* the tables of the Northwind database: the canonical six and one more
NorthwindTables ==
    {canonical_tables[i] : i \in 1..Len(canonical_tables)} \cup {<<"S","h","i","p","p","e",
                                                                   "r","s">>}

\* the engine's messages for a failing statement
EngineErrors ==
    { <<"n","o"," ","s","u","c","h"," ","t","a","b","l","e",":"," ","T">> }

\* the row sets a statement may return (rows are opaque here)
RowSets == { <<>>, <<"row1">> }

SynthResults ==
    { [final_answer |-> Str(<<"4","2">>), confidence |-> Num(90),
       explanation |-> <<"c","o","u","n","t","e","d">>, citations |-> List(<< <<"p","o","l","i","c","y",":",
                                                              ":","c","h","u","n","k","0">> >>)],
      [final_answer |-> Str(<<"[","1",".","5","]">>), confidence |-> Num(150),
       explanation |-> <<>>, citations |-> Str(<<"[","'","p","o","l","i","c","y",":",":",
                                                 "c","h","u","n","k","0","'","]">>)],
      [final_answer |-> Str(<<"s","e","e"," ","s","q","l">>), confidence |-> None,
       explanation |-> <<>>, citations |-> None],
      [final_answer |-> Str(<<>>), confidence |-> Num(0),
       explanation |-> <<>>, citations |-> List(<<>>)] }

SynthOutcomes ==
    {Raised("synthesize", e) : e \in ExceptionTexts}
    \cup {Returned("synthesize", r) : r \in SynthResults}

(***************************************************************************)
(* Initial state: the inputs the batch driver passes to invoke             *)
(***************************************************************************)

InitWith(questions, hints) ==
    /\ pc = "router"
    /\ lm \in {"none", "configured"}
    /\ db \in {"ok", "missing", "corrupt"}
    /\ question \in questions
    /\ format_hint \in hints
    /\ errors = <<>>
    /\ repair_count = 0
    /\ route = ""
    /\ constraints = <<>>
    /\ rag_context = <<>>
    /\ sql_query = <<>>
    /\ sql_results = <<>>
    /\ sql_tables = <<>>
    /\ final_answer = None
    /\ citations = <<>>
    /\ feedback = <<>>
    /\ confidence = None
    /\ explanation = <<>>
    /\ resp = NoCall
    /\ repairs = 0
    /\ execs = 0
    /\ exec_errors = 0
    /\ last_exec = NoExec
    /\ steps = 0
    /\ db_tables = NorthwindTables
    /\ conn = "none"
    /\ tool_pc = "new"
    /\ ret = NoResult
    /\ open_conns = 0
    /\ no_index
    /\ no_batch
    /\ no_loader
    /\ no_twin

Init == InitWith(Questions, FormatHints)

(***************************************************************************)
(* The nodes.  Each action is one node together with the edge that follows *)
(* it in create_graph.                                                     *)
(***************************************************************************)

\* lm_configured without the None test
lm_assumed_configured(service) == TRUE

\* `dspy.settings.lm is None` is false
lm_configured(service) == service # "none"

route_node ==
    /\ pc = "router"
    /\ steps' = steps + 1
    /\ UNCHANGED <<tool_vars, open_conns, index_vars, batch_vars, loader_vars, twin>>
    /\ \E r \in (IF lm_configured(lm) THEN ClassifyOutcomes ELSE {NoCall}) :
        /\ resp' = r
        /\ route' = route_of(question, lm, r)
    /\ constraints' = <<>>
    /\ rag_context' = <<>>
    /\ pc' = route_decision(route')
    /\ UNCHANGED <<lm, db, question, format_hint, sql_query, sql_results, final_answer,
                   citations, errors, feedback, repair_count, sql_tables, confidence,
                   explanation, repairs, execs, exec_errors, last_exec>>

retrieve_node ==
    /\ pc = "retriever"
    /\ steps' = steps + 1
    /\ UNCHANGED <<tool_vars, open_conns, index_vars, batch_vars, loader_vars, twin>>
    /\ rag_context' \in SearchResults
    /\ resp' = NoCall
    /\ pc' = "planner"
    /\ UNCHANGED <<lm, db, question, format_hint, route, constraints, sql_query,
                   sql_results, final_answer, citations, errors, feedback, repair_count,
                   sql_tables, confidence, explanation, repairs, execs, exec_errors, last_exec>>

\* the placeholder constraints stored when no service is configured
CONSTRAINTS_NO_LM ==
    <<"N","o"," ","s","p","e","c","i","f","i","c"," ","c","o","n","s","t","r","a","i","n",
      "t","s"," ","f","o","u","n","d"," ","(","L","M"," ","n","o","t"," ","c","o","n","f",
      "i","g","u","r","e","d",")",".">>

\* the constraints stored if a failing extraction were not replaced by the placeholder
planned_constraints_unabsorbed(service, r) ==
    IF ~lm_configured(service) THEN CONSTRAINTS_NO_LM ELSE str(r.val)

\* the constraints plan_node stores
planned_constraints(service, r) ==
    IF ~lm_configured(service)
    THEN CONSTRAINTS_NO_LM
    ELSE IF r.kind = "ok" THEN str(r.val)
    ELSE <<"N","o"," ","s","p","e","c","i","f","i","c"," ","c","o","n","s","t","r","a","i",
           "n","t","s"," ","f","o","u","n","d"," ","(","E","r","r","o","r",")",".">>

plan_node ==
    /\ pc = "planner"
    /\ steps' = steps + 1
    /\ UNCHANGED <<tool_vars, open_conns, index_vars, batch_vars, loader_vars, twin>>
    /\ \E r \in (IF lm_configured(lm) THEN PlanOutcomes ELSE {NoCall}) :
        /\ resp' = r
        /\ constraints' = planned_constraints(lm, r)
    /\ pc' = after_planner_decision(route)
    /\ UNCHANGED <<lm, db, question, format_hint, route, rag_context, sql_query,
                   sql_results, final_answer, citations, errors, feedback, repair_count,
                   sql_tables, confidence, explanation, repairs, execs, exec_errors, last_exec>>

\* the connections a failing entry into `with SqliteTool()` leaves open: __exit__
\* is not called when __enter__ raises
leaked_by_connect(database) ==
    IF connect_outcome(database).kind = "raise" /\ connect_outcome(database).opened THEN 1 ELSE 0

\* `with SqliteTool() as db: schema = db.get_all_schemas()` raises
schema_fetch_fails(database) == database # "ok"

\* the error sql_gen_node records when no service is configured
MSG_LM_NOT_CONFIGURED ==
    <<"D","S","P","y"," ","L","M"," ","n","o","t"," ","c","o","n","f","i","g","u","r","e",
      "d"," ","f","o","r"," ","S","Q","L"," ","g","e","n","e","r","a","t","i","o","n",".">>

\* what sql_gen_node does with the outcome of the generator call:
\* the query it stores and the errors it appends
generated_sql(r) ==
    IF r.kind = "raise"
    THEN [query |-> SQL_GENERATION_FAILED,
          errs  |-> << <<"D","S","P","y"," ","S","Q","L"," ","g","e","n","e","r","a","t",
                         "i","o","n"," ","f","a","i","l","e","d",":"," ">> \o r.val.v >>]
    ELSE IF truthy(r.val)
    THEN [query |-> clean_sql(r.val.v), errs |-> <<>>]
    ELSE [query |-> SQL_RETURNED_NONE,
          errs  |-> << <<"D","S","P","y"," ","S","Q","L"," ","g","e","n","e","r","a","t",
                         "i","o","n"," ","r","e","t","u","r","n","e","d"," ","N","o","n",
                         "e"," ","o","r"," ","e","m","p","t","y",".">> >>]

\* sql_gen_node when the generator call ends in one of the given outcomes
sql_gen_given(outcomes) ==
    /\ pc = "sql_generator"
    /\ steps' = steps + 1
    /\ UNCHANGED <<tool_vars, index_vars, batch_vars, loader_vars, twin>>
    /\ IF ~lm_configured(lm)
       THEN /\ errors' = Append(errors, MSG_LM_NOT_CONFIGURED)
            /\ sql_query' = SQL_LM_NOT_CONFIGURED
            /\ resp' = NoCall
            /\ pc' = "executor"
            /\ open_conns' = open_conns
       ELSE IF schema_fetch_fails(db) \/ all_schemas("open", db_tables).kind = "raise"
       THEN /\ pc' = "Aborted"
            /\ resp' = NoCall
            /\ open_conns' = open_conns + leaked_by_connect(db)
            /\ UNCHANGED <<errors, sql_query>>
       ELSE \E r \in outcomes :
            /\ resp' = r
            /\ open_conns' = open_conns
            /\ sql_query' = generated_sql(r).query
            /\ errors' = errors \o generated_sql(r).errs
            /\ pc' = "executor"
    /\ UNCHANGED <<lm, db, question, format_hint, route, constraints, rag_context,
                   sql_results, final_answer, citations, feedback, repair_count,
                   sql_tables, confidence, explanation, repairs, execs, exec_errors, last_exec>>

sql_gen_node == sql_gen_given(GenerateOutcomes)

\* str(e) of the error execute_sql raises for a failing statement
sql_error(msg, query) ==
    <<"S","Q","L"," ","E","r","r","o","r",":"," ">> \o msg \o <<"."," ","Q","u","e","r","y",":"," ","'">> \o query \o <<"'">>

\* the statement begins, case-insensitively, with SELECT: it has a result set
reads_rows(query) ==
    startswith(lower(lstrip_chars(query, Whitespace)), <<"s","e","l","e","c","t">>)

\* what the engine does with one statement on an open connection: a literal-only
\* SELECT (the sentinel queries) returns its one row; a SELECT returns rows or
\* fails; any other statement fails or completes with no result set
statement_outcomes(query) ==
    IF query \in {SQL_LM_NOT_CONFIGURED, SQL_RETURNED_NONE, SQL_GENERATION_FAILED}
    THEN {[kind |-> "rows", rows |-> <<"row1">>, message |-> <<>>]}
    ELSE {[kind |-> "engine_error", rows |-> <<>>, message |-> e] : e \in EngineErrors}
         \cup (IF reads_rows(query)
               THEN {[kind |-> "rows", rows |-> rs, message |-> <<>>] : rs \in RowSets}
               ELSE {[kind |-> "no_result_set", rows |-> <<>>, message |-> <<>>]})

\* execute_sql(query) on a tool whose self._conn is connection
execute_sql_outcomes(query, connection) ==
    IF connection = "none"
    THEN {raises("ConnectionError", <<"D","a","t","a","b","a","s","e"," ","i","s"," ","n",
                                      "o","t"," ","c","o","n","n","e","c","t","e","d",".">>)}
    ELSE IF connection = "closed"
    THEN {raises("sqlite3.Error",
                 sql_error(<<"C","a","n","n","o","t"," ","o","p","e","r","a","t","e"," ",
                             "o","n"," ","a"," ","c","l","o","s","e","d"," ","d","a","t",
                             "a","b","a","s","e",".">>, query))}
    ELSE {CASE o.kind = "rows" -> returns(o.rows)
            [] o.kind = "engine_error" -> raises("sqlite3.Error", sql_error(o.message, query))
            [] OTHER -> raises("TypeError", <<"'","N","o","n","e","T","y","p","e","'"," ",
                                              "o","b","j","e","c","t"," ","i","s"," ","n",
                                              "o","t"," ","i","t","e","r","a","b","l","e">>)
          : o \in statement_outcomes(query)}

\* what reaches execute_sql_node if a failing execution is not reported
execute_outcomes_swallowed(database, query) ==
    {[kind |-> "rows", rows |-> IF r.kind = "ok" THEN r.val ELSE <<>>, message |-> <<>>]
       : r \in execute_sql_outcomes(query, "open")}

\* `with SqliteTool() as db: db.execute_sql(query)`: the rows, or the kind and
\* text of the exception that leaves the with statement
execute_outcomes(database, query) ==
    IF connect_outcome(database).kind = "raise"
    THEN {[kind |-> IF database = "missing" THEN "no_database" ELSE "connect_error",
           rows |-> <<>>, message |-> connect_outcome(database).val]}
    ELSE {[kind |-> IF r.kind = "ok" THEN "rows"
                    ELSE IF r.exc = "sqlite3.Error" THEN "query_error" ELSE "type_error",
           rows |-> IF r.kind = "ok" THEN r.val ELSE <<>>,
           message |-> IF r.kind = "ok" THEN <<>> ELSE r.val]
          : r \in execute_sql_outcomes(query, "open")}

\* execute_sql_node if a failing execution also dropped the stored rows and tables
execute_sql_node_resetting ==
    /\ pc = "executor"
    /\ steps' = steps + 1
    /\ UNCHANGED <<tool_vars, index_vars, batch_vars, loader_vars, twin>>
    /\ \E o \in execute_outcomes(db, sql_query) :
        /\ IF o.kind = "rows"
           THEN /\ sql_results' = o.rows
                /\ IF sql_query # <<>>
                   THEN sql_tables' \in orderings(table_names(sql_query))
                   ELSE sql_tables' = sql_tables
                /\ errors' = errors
           ELSE /\ errors' = Append(errors, o.message)
                /\ sql_results' = <<>>
                /\ sql_tables' = <<>>
        /\ exec_errors' = exec_errors + (IF o.kind = "query_error" THEN 1 ELSE 0)
        /\ last_exec' = [ran |-> TRUE, ok |-> o.kind = "rows", query |-> sql_query]
    /\ execs' = execs + 1
    /\ open_conns' = open_conns + leaked_by_connect(db)
    /\ resp' = NoCall
    /\ pc' = "synthesizer"
    /\ UNCHANGED <<lm, db, question, format_hint, route, constraints, rag_context,
                   sql_query, final_answer, citations, feedback, repair_count,
                   confidence, explanation, repairs>>

execute_sql_node ==
    /\ pc = "executor"
    /\ steps' = steps + 1
    /\ UNCHANGED <<tool_vars, index_vars, batch_vars, loader_vars, twin>>
    /\ \E o \in execute_outcomes(db, sql_query) :
        /\ IF o.kind = "rows"
           THEN /\ sql_results' = o.rows
                /\ IF sql_query # <<>>
                   THEN sql_tables' \in orderings(table_names(sql_query))
                   ELSE sql_tables' = sql_tables
                /\ errors' = errors
           ELSE /\ errors' = Append(errors, o.message)
                /\ UNCHANGED <<sql_results, sql_tables>>
        /\ exec_errors' = exec_errors + (IF o.kind = "query_error" THEN 1 ELSE 0)
        /\ last_exec' = [ran |-> TRUE, ok |-> o.kind = "rows", query |-> sql_query]
    /\ execs' = execs + 1
    /\ open_conns' = open_conns + leaked_by_connect(db)
    /\ resp' = NoCall
    /\ pc' = "synthesizer"
    /\ UNCHANGED <<lm, db, question, format_hint, route, constraints, rag_context,
                   sql_query, final_answer, citations, feedback, repair_count,
                   confidence, explanation, repairs>>

\* the placeholder answer stored when no service is configured
ANSWER_NO_LM ==
    <<"I"," ","c","a","n","n","o","t"," ","g","e","n","e","r","a","t","e"," ","a","n"," ",
      "a","n","s","w","e","r"," ","b","e","c","a","u","s","e"," ","t","h","e"," ","L","L",
      "M"," ","i","s"," ","n","o","t"," ","c","o","n","f","i","g","u","r","e","d",".">>

\* float(result.confidence), 0.0 on ValueError or TypeError (numbers in hundredths)
confidence_of(c) == IF c.t = "num" THEN c ELSE Num(0)

\* the citations stored if the referenced tables were left out
merged_citations_without_tables(rag_citations, tables) ==
    LET cleaned == strip_chars(rag_citations.v, {"[", "]", "'", "\"", " "})
    IN  IF ~truthy(rag_citations) THEN <<>>
        ELSE IF rag_citations.t = "str"
        THEN IF cleaned # <<>> THEN <<cleaned>> ELSE <<>>
        ELSE rag_citations.v

\* the citations synthesize_node stores on success
merged_citations(rag_citations, tables) ==
    LET cleaned == strip_chars(rag_citations.v, {"[", "]", "'", "\"", " "})
        docs == IF ~truthy(rag_citations) THEN <<>>
                ELSE IF rag_citations.t = "str"
                THEN IF cleaned # <<>> THEN <<cleaned>> ELSE <<>>
                ELSE rag_citations.v
    IN  IF tables # <<>>
        THEN Append(docs, <<"S","Q","L",":"," ">> \o join(<<",", " ">>, tables))
        ELSE docs

synthesize_node ==
    /\ pc = "synthesizer"
    /\ steps' = steps + 1
    /\ UNCHANGED <<tool_vars, open_conns, index_vars, batch_vars, loader_vars, twin>>
    /\ IF ~lm_configured(lm)
       THEN /\ final_answer' = Str(ANSWER_NO_LM)
            /\ citations' = <<>>
            /\ resp' = NoCall
            /\ UNCHANGED <<errors, confidence, explanation>>
       ELSE \E r \in SynthOutcomes :
            /\ resp' = r
            /\ IF r.kind = "raise"
               THEN /\ final_answer' =
                        Str(<<"I"," ","e","n","c","o","u","n","t","e","r","e","d"," ","a",
                              "n"," ","e","r","r","o","r"," ","w","h","i","l","e"," ","g",
                              "e","n","e","r","a","t","i","n","g"," ","t","h","e"," ","a",
                              "n","s","w","e","r",".">>)
                    /\ citations' = <<>>
                    /\ errors' = Append(errors, <<"S","y","n","t","h","e","s","i","s"," ",
                                                  "f","a","i","l","e","d",":"," ">> \o r.val.v)
                    /\ UNCHANGED <<confidence, explanation>>
               ELSE /\ final_answer' = r.val.final_answer
                    /\ confidence' = confidence_of(r.val.confidence)
                    /\ explanation' = r.val.explanation
                    /\ citations' = merged_citations(r.val.citations, sql_tables)
                    /\ errors' = errors
    /\ pc' = "validator"
    /\ UNCHANGED <<lm, db, question, format_hint, route, constraints, rag_context,
                   sql_query, sql_results, feedback, repair_count, sql_tables,
                   repairs, execs, exec_errors, last_exec>>

\* the errors left if the format checks ran whatever errors are there
validated_errors_always_checked(errs, answer, hint) ==
    errs \o validation_errors(answer, lower(hint))

\* the errors validate_node leaves: upstream errors skip the format checks
validated_errors(errs, answer, hint) ==
    IF errs # <<>> THEN errs ELSE errs \o validation_errors(answer, lower(hint))

\* the repair_count validate_node leaves
validated_count(errs, count) == IF errs # <<>> THEN count + 1 ELSE count

validate_node ==
    /\ pc = "validator"
    /\ steps' = steps + 1
    /\ UNCHANGED <<tool_vars, open_conns, index_vars, batch_vars, loader_vars, twin>>
    /\ errors' = validated_errors(errors, final_answer, format_hint)
    /\ repair_count' = validated_count(errors', repair_count)
    /\ resp' = NoCall
    /\ pc' = needs_repair(errors', repair_count')
    /\ UNCHANGED <<lm, db, question, format_hint, route, constraints, rag_context,
                   sql_query, sql_results, final_answer, citations, feedback,
                   sql_tables, confidence, explanation, repairs, execs, exec_errors, last_exec>>

repair_node ==
    /\ pc = "repair"
    /\ steps' = steps + 1
    /\ UNCHANGED <<tool_vars, open_conns, index_vars, batch_vars, loader_vars, twin>>
    /\ feedback' = repair_feedback(errors)
    /\ errors' = <<>>
    /\ repairs' = repairs + 1
    /\ resp' = NoCall
    /\ pc' = repair_routing(feedback')
    /\ UNCHANGED <<lm, db, question, format_hint, route, constraints, rag_context,
                   sql_query, sql_results, final_answer, citations, repair_count,
                   sql_tables, confidence, explanation, execs, exec_errors, last_exec>>

Next ==
    \/ route_node
    \/ retrieve_node
    \/ plan_node
    \/ sql_gen_node
    \/ execute_sql_node
    \/ synthesize_node
    \/ validate_node
    \/ repair_node

Spec == Init /\ [][Next]_vars

\* the routing step alone, over the wider set of questions
RouteInit == InitWith(RouteQuestions, {<<>>})

RouteSpec == RouteInit /\ [][route_node]_vars

(***************************************************************************)
(* The validator alone: a run that enters validate_node with no upstream   *)
(* error, over a wider set of answers and format hints                     *)
(***************************************************************************)

\* the format hints of the validator specification: up to MaxHintParts of these
MaxHintParts == 2

HintParts ==
    { <<"i","n","t">>,
      <<"f","l","o","a","t">>,
      <<"l","i","s","t">>,
      <<"j","s","o","n">>,
      <<"{">>,
      <<"I","N","T">>,
      <<"A"," ","s","t","r","i","n","g"," ","a","n","s","w","e","r",".">>,
      <<" ","o","f"," ","n","a","m","e","s">> }

ValidatorHints == texts_of(HintParts, MaxHintParts)

\* the answers a Synthesize call may have left in final_answer
ValidatorAnswers ==
    { None,
      Str(<<>>),
      Str(<<"4","2">>),
      Str(<<"4",".","5">>),
      Str(<<" ","[","1",","," ","2","]","\n">>),
      Str(<<"{","x","}">>),
      Str(<<"n","o","t"," ","a"," ","l","i","s","t">>),
      Str(<<" "," ">>) }

\* the state of a rag run after synthesize_node stored the answer
ValidateInit ==
    /\ pc = "validator"
    /\ lm = "configured"
    /\ db = "ok"
    /\ question = <<"R","e","t","u","r","n"," ","P","o","l","i","c","y","?">>
    /\ format_hint \in ValidatorHints
    /\ final_answer \in ValidatorAnswers
    /\ errors = <<>>
    /\ repair_count = 0
    /\ route = "rag"
    /\ constraints = <<"y","e","a","r"," ","1","9","9","7">>
    /\ rag_context = <<>>
    /\ sql_query = <<>>
    /\ sql_results = <<>>
    /\ sql_tables = <<>>
    /\ citations = <<>>
    /\ feedback = <<>>
    /\ confidence = Num(0)
    /\ explanation = <<>>
    /\ resp = Returned("synthesize", [final_answer |-> final_answer, confidence |-> None,
                                      explanation |-> <<>>, citations |-> None])
    /\ repairs = 0
    /\ execs = 0
    /\ exec_errors = 0
    /\ last_exec = NoExec
    /\ steps = 4
    /\ db_tables = NorthwindTables
    /\ conn = "none"
    /\ tool_pc = "new"
    /\ ret = NoResult
    /\ open_conns = 0
    /\ no_index
    /\ no_batch
    /\ no_loader
    /\ no_twin

ValidateSpec == ValidateInit /\ [][validate_node]_vars

(***************************************************************************)
(* The database tool alone: one SqliteTool object, entered with `with`,    *)
(* used and left, over databases that are absent, unusable or incomplete   *)
(***************************************************************************)

\* the variables of a workflow run
run_vars ==
    <<pc, lm, db, question, format_hint, route, constraints, rag_context, sql_query,
      sql_results, final_answer, citations, errors, feedback, repair_count,
      sql_tables, confidence, explanation, resp, repairs, execs, exec_errors, last_exec, steps>>

\* the table sets of the databases the tool is pointed at
TableSets ==
    { NorthwindTables,
      NorthwindTables \ {<<"S","u","p","p","l","i","e","r","s">>},
      NorthwindTables \ {<<"C","a","t","e","g","o","r","i","e","s">>, <<"O","r","d","e","r","s">>},
      {} }

\* the names get_table_schema is asked for
SchemaRequests ==
    { <<"O","r","d","e","r","s">>, <<"o","r","d","e","r","s">>, <<"O","r","d","e","r"," ","D","e","t","a","i","l","s">>, <<"o","r","d","e","r","_","i","t",
                                                         "e","m","s">>,
      <<"C","a","t","e","g","o","r","i","e","s">>, <<"S","u","p","p","l","i","e","r","s">>, <<"S","h","i","p","p","e","r","s">>, <<"s","q","l","i","t","e","_","m",
                                                           "a","s","t","e","r">> }

\* the statements execute_sql is given
ToolQueries ==
    { <<"S","E","L","E","C","T"," ","*"," ","F","R","O","M"," ","O","r","d","e","r","s",";">>,
      <<"S","E","L","E","C"," ","*"," ","F","R","O","M"," ","O","r","d","e","r","s",";">>,
      <<"U","P","D","A","T","E"," ","O","r","d","e","r","s"," ","S","E","T"," ","S","h","i",
        "p","C","i","t","y"," ","="," ","'","x","'",";">>,
      <<";">>,
      SQL_LM_NOT_CONFIGURED }

\* a tool just constructed, no workflow run in progress
ToolInit ==
    /\ db \in {"ok", "missing", "corrupt"}
    /\ db_tables \in (IF db = "ok" THEN TableSets ELSE {{}})
    /\ conn = "none"
    /\ tool_pc = "new"
    /\ ret = NoResult
    /\ open_conns = 0
    /\ no_index
    /\ no_batch
    /\ no_loader
    /\ no_twin
    /\ pc = "no_run"
    /\ lm = "none"
    /\ question = <<>>
    /\ format_hint = <<>>
    /\ errors = <<>>
    /\ repair_count = 0
    /\ route = ""
    /\ constraints = <<>>
    /\ rag_context = <<>>
    /\ sql_query = <<>>
    /\ sql_results = <<>>
    /\ sql_tables = <<>>
    /\ final_answer = None
    /\ citations = <<>>
    /\ feedback = <<>>
    /\ confidence = None
    /\ explanation = <<>>
    /\ resp = NoCall
    /\ repairs = 0
    /\ execs = 0
    /\ exec_errors = 0
    /\ last_exec = NoExec
    /\ steps = 0

\* the record of a call: the operation, its argument, self._conn when it was
\* called, and its outcome
called(op, arg, o) ==
    [op |-> op, arg |-> arg, conn |-> conn, kind |-> o.kind, exc |-> o.exc, val |-> o.val]

\* an exception raised inside the with block starts unwinding it
after_call(o) == IF tool_pc = "in_scope" /\ o.kind = "raise" THEN "unwinding" ELSE tool_pc

\* SqliteTool.__enter__
SqliteTool_enter ==
    /\ tool_pc = "new"
    /\ conn' = IF connect_outcome(db).opened THEN "open" ELSE "none"
    /\ open_conns' = open_conns + (IF connect_outcome(db).opened THEN 1 ELSE 0)
    /\ tool_pc' = IF connect_outcome(db).kind = "ok" THEN "in_scope" ELSE "failed"
    /\ ret' = called("__enter__", <<>>, connect_outcome(db))
    /\ UNCHANGED <<db_tables, run_vars, index_vars, batch_vars, loader_vars, twin>>

\* SqliteTool.__exit__, called by the with statement on leaving its block
SqliteTool_exit ==
    /\ tool_pc \in {"in_scope", "unwinding"}
    /\ conn' = IF conn # "none" THEN "closed" ELSE conn
    /\ open_conns' = IF conn = "open" THEN open_conns - 1 ELSE open_conns
    /\ tool_pc' = "exited"
    /\ UNCHANGED <<db_tables, ret, run_vars, index_vars, batch_vars, loader_vars, twin>>

\* SqliteTool.get_table_schema
get_table_schema ==
    /\ tool_pc \in {"new", "in_scope", "exited"}
    /\ \E name \in SchemaRequests :
        /\ ret' = called("get_table_schema", name, table_schema(name, conn, db_tables))
        /\ tool_pc' = after_call(table_schema(name, conn, db_tables))
    /\ UNCHANGED <<db_tables, conn, open_conns, run_vars, index_vars, batch_vars, loader_vars, twin>>

\* SqliteTool.get_all_schemas
get_all_schemas ==
    /\ tool_pc \in {"new", "in_scope", "exited"}
    /\ ret' = called("get_all_schemas", <<>>, all_schemas(conn, db_tables))
    /\ tool_pc' = after_call(all_schemas(conn, db_tables))
    /\ UNCHANGED <<db_tables, conn, open_conns, run_vars, index_vars, batch_vars, loader_vars, twin>>

\* SqliteTool.execute_sql
execute_sql ==
    /\ tool_pc \in {"new", "in_scope", "exited"}
    /\ \E query \in ToolQueries : \E o \in execute_sql_outcomes(query, conn) :
        /\ ret' = called("execute_sql", query, o)
        /\ tool_pc' = after_call(o)
    /\ UNCHANGED <<db_tables, conn, open_conns, run_vars, index_vars, batch_vars, loader_vars, twin>>

ToolNext ==
    \/ SqliteTool_enter
    \/ get_table_schema
    \/ get_all_schemas
    \/ execute_sql
    \/ SqliteTool_exit

ToolSpec == ToolInit /\ [][ToolNext]_vars

(***************************************************************************)
(* The retrieval index on its own: one retriever is built over a docs path *)
(* and searched any number of times                                        *)
(***************************************************************************)

\* the largest top_k a search is called with
MaxTopK == 3

\* the scores bm25.get_scores can give a chunk
ScoreValues == {0 - 1, 0, 1, 2}

\* the queries searched for
Queries == {<<"r","e","t","u","r","n"," ","p","o","l","i","c","y">>, <<"z","z","z">>}

\* a readable file and one that cannot be read as text
Readable(name, text) == [name |-> name, content |-> Str(text)]
Unreadable(name) == [name |-> name, content |-> None]

\* the docs paths an index is built over
Corpora ==
    { [path |-> "missing", files |-> <<>>],
      [path |-> "file", files |-> <<>>],
      [path |-> "dir", files |-> <<>>],
      [path |-> "dir", files |-> <<Readable(<<"x",".","m","d">>, <<>>)>>],
      [path |-> "dir", files |-> <<Readable(<<"x",".","m","d">>, <<"a","\n","\n","b">>),
                                   Unreadable(<<"y",".","m","d">>)>>],
      [path |-> "dir", files |-> <<Readable(<<"y",".","m","d">>, <<"a">>),
                                   Readable(<<"x",".","m","d">>, <<"b","\n","\n","\n"," ","c","\n">>)>>],
      [path |-> "dir", files |-> <<Readable(<<".","m","d",".","m","d">>, <<"a">>),
                                   Readable(<<".","m","d">>, <<"b">>)>>] }

\* no workflow run is under study
no_run ==
    /\ pc = "no_run"
    /\ lm = "none"
    /\ db = "ok"
    /\ question = <<>>
    /\ format_hint = <<>>
    /\ errors = <<>>
    /\ repair_count = 0
    /\ route = ""
    /\ constraints = <<>>
    /\ rag_context = <<>>
    /\ sql_query = <<>>
    /\ sql_results = <<>>
    /\ sql_tables = <<>>
    /\ final_answer = None
    /\ citations = <<>>
    /\ feedback = <<>>
    /\ confidence = None
    /\ explanation = <<>>
    /\ resp = NoCall
    /\ repairs = 0
    /\ execs = 0
    /\ exec_errors = 0
    /\ last_exec = NoExec
    /\ steps = 0

\* no database tool is under study
no_tool ==
    /\ db_tables = NorthwindTables
    /\ conn = "none"
    /\ tool_pc = "new"
    /\ ret = NoResult
    /\ open_conns = 0

\* a retriever about to be constructed
index_new ==
    /\ retriever = NoRetriever
    /\ scores = <<>>
    /\ last_search = NoSearch
    /\ first_search = NoSearch

IndexInit ==
    /\ corpus \in Corpora
    /\ index_new
    /\ no_run
    /\ no_tool
    /\ no_batch
    /\ no_loader
    /\ no_twin

\* BM25Okapi built over whatever was loaded, which fails over nothing
bm25_unguarded(documents) == IF documents # <<>> THEN "built" ELSE "raised"

\* self.bm25: BM25Okapi over the chunks if there are any, None otherwise
bm25_of(documents) == IF documents # <<>> THEN "built" ELSE "none"

\* BM25Retriever(docs_path): load and chunk, then build bm25 if anything was loaded
BM25Retriever_init ==
    /\ retriever.bm25 = "unset"
    /\ LET loaded == load_and_chunk_documents(globbed(corpus))
       IN  retriever' = [documents |-> loaded.documents,
                         doc_ids   |-> loaded.doc_ids,
                         bm25      |-> bm25_of(loaded.documents)]
    /\ UNCHANGED <<corpus, scores, last_search, first_search>>
    /\ UNCHANGED <<tool_vars, open_conns, run_vars, batch_vars, loader_vars, twin>>

\* get_scores that may answer the same query differently each time
get_scores_unfixed(given, query, n) == [1..n -> ScoreValues]

\* bm25.get_scores(query) over n chunks: any scores for a query not seen before,
\* the same scores again for one that was
get_scores(given, query, n) ==
    IF query \in DOMAIN given THEN {given[query]} ELSE [1..n -> ScoreValues]

\* retriever.search(query, top_k)
search ==
    /\ retriever.bm25 # "unset"
    /\ \E query \in Queries, top_k \in 0..MaxTopK :
         IF retriever.bm25 = "none"
         THEN /\ last_search' = [query |-> query, top_k |-> top_k,
                                 out |-> search_results(retriever, <<>>, top_k)]
              /\ scores' = scores
         ELSE \E doc_scores \in get_scores(scores, query, Len(retriever.documents)) :
                /\ last_search' = [query |-> query, top_k |-> top_k,
                                   out |-> search_results(retriever, doc_scores, top_k)]
                /\ scores' = (query :> doc_scores) @@ scores
    /\ first_search' = IF first_search = NoSearch THEN last_search' ELSE first_search
    /\ UNCHANGED <<corpus, retriever>>
    /\ UNCHANGED <<tool_vars, open_conns, run_vars, batch_vars, loader_vars, twin>>

IndexNext ==
    \/ BM25Retriever_init
    \/ search

IndexSpec == IndexInit /\ [][IndexNext]_vars

(***************************************************************************)
(* Building the index over files of any content                            *)
(***************************************************************************)

\* the most pieces a file's content is put together from
MaxContentParts == 3

\* the pieces of a file's content: text, a blank line, a line end, a space
ContentParts == {<<"a">>, <<"\n","\n">>, <<"\n">>, <<" ">>}

\* what reading a file gives: its text, or None for a file that cannot be read
FileContents == {Str(t) : t \in texts_of(ContentParts, MaxContentParts)} \cup {None}

\* the names glob("*.md") yields, in the order it yields them
FileNameLists ==
    { <<>>, <<<<"x",".","m","d">>>>, <<<<".","m","d">>>>, <<<<"x",".","m","d">>, <<"y",".","m","d">>>>,
      <<<<".","m","d",".","m","d">>, <<".","m","d">>>> }

BuildInit ==
    /\ \/ corpus \in {[path |-> "missing", files |-> <<>>],
                      [path |-> "file", files |-> <<>>]}
       \/ \E names \in FileNameLists :
             \E contents \in [1..Len(names) -> FileContents] :
                corpus = [path |-> "dir",
                          files |-> [f \in 1..Len(names) |->
                                       [name |-> names[f], content |-> contents[f]]]]
    /\ index_new
    /\ no_run
    /\ no_tool
    /\ no_batch
    /\ no_loader
    /\ no_twin

BuildSpec == BuildInit /\ [][BM25Retriever_init]_vars

(***************************************************************************)
(* Executing generated queries of any shape: the run stands at the         *)
(* executor with the query the generator's output was cleaned up to        *)
(***************************************************************************)

\* the most pieces a generated query is put together from
MaxSqlParts == 4

\* the pieces of a generated query after its SELECT list starts
SqlParts ==
    {<<"x">>, <<"F","r","o","m"," ">>, <<"F","R","O","M"," ">>, <<"J","O","I","N","\n">>, <<"\"","O"," ","D","\""," ">>, <<"P"," ">>,
     <<"A","S"," ">>, <<"a",","," ">>}

\* the generator's outputs
GeneratedTexts ==
    {<<"S","E","L","E","C","T"," ","*"," ">> \o t : t \in texts_of(SqlParts, MaxSqlParts)}
    \cup {<<"S","E","L","E","C","T"," ","*"," ","F","R","O","M"," ","\"","O","r","d","e",
            "r"," ","D","e","t","a","i","l","s","\""," ","A","S"," ","T","1"," ","J","O",
            "I","N"," ","P","r","o","d","u","c","t","s"," ","A","S"," ","T","2"," ","O","N",
            " ","T","1",".","I","d"," ","="," ","T","2",".","I","d">>,
          <<"S","E","L","E","C","T"," ","O","r","d","e","r","D","a","t","e"," ","A","S"," ",
            "D","a","t","e","F","r","o","m"," ","F","R","O","M"," ","O","r","d","e","r","s">>}

ExtractInit ==
    /\ pc = "executor"
    /\ lm = "configured"
    /\ db = "ok"
    /\ question = <<"T","o","p"," ","p","r","o","d","u","c","t","s","?">>
    /\ format_hint = <<>>
    /\ route = "sql"
    /\ \E text \in GeneratedTexts :
          /\ resp = Returned("generate", Str(text))
          /\ sql_query = generated_sql(resp).query
    /\ errors = <<>>
    /\ repair_count = 0
    /\ constraints = <<>>
    /\ rag_context = <<>>
    /\ sql_results = <<>>
    /\ sql_tables = <<>>
    /\ final_answer = None
    /\ citations = <<>>
    /\ feedback = <<>>
    /\ confidence = None
    /\ explanation = <<>>
    /\ repairs = 0
    /\ execs = 0
    /\ exec_errors = 0
    /\ last_exec = NoExec
    /\ steps = 2
    /\ no_tool
    /\ no_index
    /\ no_batch
    /\ no_loader
    /\ no_twin

ExtractSpec == ExtractInit /\ [][execute_sql_node]_vars

(***************************************************************************)
(* Generating and executing queries from raw outputs of any shape: the run *)
(* stands at the SQL generator, the service and the database are there     *)
(***************************************************************************)

\* the most pieces a raw generator output is put together from
MaxRawParts == 3

\* the pieces of a raw generator output
RawParts ==
    {<<"S","E","L","E","C","T"," ">>, <<"s","e","l","e","c","t","\n","1">>, <<"S","E","L","E","C","T","*">>, <<"Q",":"," ">>, <<BT, BT, BT>>,
     <<"s","q","l","\n">>, <<"]"," ">>, <<";">>, <<"D","R","O","P"," ","t">>, <<"F","R","O","M"," ","O","r","d","e",
                                                     "r","s">>}

\* the generator's raw outputs
RawOutputs == texts_of(RawParts, MaxRawParts)

GenInit ==
    /\ pc = "sql_generator"
    /\ lm = "configured"
    /\ db = "ok"
    /\ question = <<"T","o","p"," ","p","r","o","d","u","c","t","s","?">>
    /\ format_hint = <<>>
    /\ route = "sql"
    /\ resp = NoCall
    /\ sql_query = <<>>
    /\ errors = <<>>
    /\ repair_count = 0
    /\ constraints = <<>>
    /\ rag_context = <<>>
    /\ sql_results = <<>>
    /\ sql_tables = <<>>
    /\ final_answer = None
    /\ citations = <<>>
    /\ feedback = <<>>
    /\ confidence = None
    /\ explanation = <<>>
    /\ repairs = 0
    /\ execs = 0
    /\ exec_errors = 0
    /\ last_exec = NoExec
    /\ steps = 1
    /\ no_tool
    /\ no_index
    /\ no_batch
    /\ no_loader
    /\ no_twin

\* sql_gen_node when the generator returns any of the raw outputs
sql_gen_raw == sql_gen_given({Returned("generate", Str(text)) : text \in RawOutputs})

GenNext == sql_gen_raw \/ execute_sql_node

GenSpec == GenInit /\ [][GenNext]_vars

(***************************************************************************)
(* The SQL generator's loader (_load_sql_generator): the threads of one    *)
(* process call it, each statement of it is one step                       *)
(***************************************************************************)

\* the most calls one thread makes
MaxLoaderCalls == 2

LoaderInit ==
    /\ sql_generator_module = 0
    /\ instances = 0
    /\ optimized_path \in {"absent", "loadable", "unloadable"}
    /\ loader = [t \in LoaderThreads |-> [pc |-> "idle", calls |-> 0]]
    /\ returned = {}
    /\ no_twin
    /\ no_run
    /\ no_tool
    /\ no_index
    /\ no_batch

\* thread t moves to place p of the loader
loader_at(t, p) == [loader EXCEPT ![t].pc = p]

\* _sql_generator_module = SQLGenerator(): a new instance is stored
stores_new_instance ==
    /\ instances' = instances + 1
    /\ sql_generator_module' = instances'

\* a thread calls the loader and tests `_sql_generator_module is None` and
\* `optimized_path.exists()`
loader_test(t) ==
    /\ loader[t].pc = "idle"
    /\ loader[t].calls < MaxLoaderCalls
    /\ loader' = loader_at(t, IF sql_generator_module # 0 THEN "return"
                              ELSE IF optimized_path = "absent" THEN "fresh"
                              ELSE "optimized")
    /\ UNCHANGED <<sql_generator_module, instances, optimized_path, returned>>

\* the file is there: the module is constructed and stored before it is loaded
loader_construct(t) ==
    /\ loader[t].pc = "optimized"
    /\ stores_new_instance
    /\ loader' = loader_at(t, "load")
    /\ UNCHANGED <<optimized_path, returned>>

\* _sql_generator_module.load(path) returns, or raises and is caught
loader_load(t) ==
    /\ loader[t].pc = "load"
    /\ loader' = loader_at(t, IF optimized_path = "loadable" THEN "return" ELSE "fresh")
    /\ UNCHANGED <<sql_generator_module, instances, optimized_path, returned>>

\* the file is not there, or could not be loaded: a fresh module is stored
loader_fresh(t) ==
    /\ loader[t].pc = "fresh"
    /\ stores_new_instance
    /\ loader' = loader_at(t, "return")
    /\ UNCHANGED <<optimized_path, returned>>

\* return _sql_generator_module
loader_return(t) ==
    /\ loader[t].pc = "return"
    /\ returned' = returned \cup {sql_generator_module}
    /\ loader' = [loader EXCEPT ![t] = [pc |-> "idle", calls |-> @.calls + 1]]
    /\ UNCHANGED <<sql_generator_module, instances, optimized_path>>

load_sql_generator ==
    \E t \in LoaderThreads :
        \/ loader_test(t)
        \/ loader_construct(t)
        \/ loader_load(t)
        \/ loader_fresh(t)
        \/ loader_return(t)

LoaderNext ==
    /\ load_sql_generator
    /\ UNCHANGED <<tool_vars, open_conns, run_vars, index_vars, batch_vars, twin>>

LoaderSpec == LoaderInit /\ [][LoaderNext]_vars

(***************************************************************************)
(* Two runs on the same inputs: both stand at the executor with the same   *)
(* query, and the second one meets the outcomes the first one met          *)
(***************************************************************************)

TwinInit ==
    /\ pc = "executor"
    /\ lm = "configured"
    /\ db \in {"ok", "missing"}
    /\ question = <<"T","o","p"," ","p","r","o","d","u","c","t","s","?">>
    /\ format_hint = <<>>
    /\ route = "sql"
    /\ resp \in GenerateOutcomes
    /\ sql_query = generated_sql(resp).query
    /\ errors = generated_sql(resp).errs
    /\ twin = [pc |-> "executor", sql_tables |-> <<>>, citations |-> <<>>]
    /\ repair_count = 0
    /\ constraints = <<>>
    /\ rag_context = <<>>
    /\ sql_results = <<>>
    /\ sql_tables = <<>>
    /\ final_answer = None
    /\ citations = <<>>
    /\ feedback = <<>>
    /\ confidence = None
    /\ explanation = <<>>
    /\ repairs = 0
    /\ execs = 0
    /\ exec_errors = 0
    /\ last_exec = NoExec
    /\ steps = 2
    /\ no_tool
    /\ no_index
    /\ no_batch
    /\ no_loader

\* execute_sql_node of the second run: the execution ends as the first run's
\* did, and list(set(table_names)) is formed anew
twin_execute ==
    /\ twin.pc = "executor"
    /\ last_exec.ran
    /\ \E names \in (IF last_exec.ok /\ last_exec.query # <<>>
                     THEN orderings(table_names(last_exec.query))
                     ELSE {twin.sql_tables}) :
          twin' = [twin EXCEPT !.pc = "synthesizer", !.sql_tables = names]
    /\ UNCHANGED <<tool_vars, open_conns, run_vars, index_vars, batch_vars, loader_vars>>

\* synthesize_node of the second run: the service answers as it answered the
\* first run
twin_synthesize ==
    /\ twin.pc = "synthesizer"
    /\ pc = "validator"
    /\ twin' = [twin EXCEPT !.pc = "validator",
                            !.citations = IF resp.kind = "ok"
                                          THEN merged_citations(resp.val.citations,
                                                                twin.sql_tables)
                                          ELSE <<>>]
    /\ UNCHANGED <<tool_vars, open_conns, run_vars, index_vars, batch_vars, loader_vars>>

TwinNext ==
    \/ execute_sql_node
    \/ synthesize_node
    \/ twin_execute
    \/ twin_synthesize

TwinSpec == TwinInit /\ [][TwinNext]_vars

(***************************************************************************)
(* The batch driver (run_agent_hybrid.main): one loop iteration per line   *)
(* of the input file; what a run does is left open here, it returns a      *)
(* final state or raises                                                   *)
(***************************************************************************)

\* the most lines of an input file
MaxLines == 3

\* what a line of the input file can be: blank, not JSON, JSON that is not an
\* object, or a JSON object
LineKinds == {"blank", "unparsable", "not_object", "object"}

\* the input files
InputFiles == UNION {[1..n -> LineKinds] : n \in 0..MaxLines}

BatchInit ==
    /\ f_in \in InputFiles
    /\ line_no = 0
    /\ f_out = <<>>
    /\ main_pc = "reading"
    /\ no_run
    /\ no_tool
    /\ no_index
    /\ no_loader
    /\ no_twin

\* json.loads(line), data.get(...): a line that is not a JSON object raises
parses(kind) == kind = "object"

\* one iteration of `for line in f_in`: a blank line is skipped; a line that
\* does not parse raises out of the loop into the outer handler; otherwise the
\* run's result, or the error line if it raised, is written and flushed
main_line ==
    /\ main_pc = "reading"
    /\ line_no < Len(f_in)
    /\ line_no' = line_no + 1
    /\ IF f_in[line_no'] = "blank"
       THEN UNCHANGED <<f_out, main_pc>>
       ELSE IF ~parses(f_in[line_no'])
       THEN /\ main_pc' = "critical_error"
            /\ f_out' = f_out
       ELSE /\ \E invoke \in {"returns", "raises"} :
                 f_out' = Append(f_out, [line |-> line_no',
                                         kind |-> IF invoke = "returns" THEN "result"
                                                  ELSE "error"])
            /\ main_pc' = main_pc
    /\ f_in' = f_in
    /\ UNCHANGED <<tool_vars, open_conns, run_vars, index_vars, loader_vars, twin>>

\* the input is exhausted: the files are closed
main_end ==
    /\ main_pc = "reading"
    /\ line_no = Len(f_in)
    /\ main_pc' = "complete"
    /\ UNCHANGED <<f_in, line_no, f_out>>
    /\ UNCHANGED <<tool_vars, open_conns, run_vars, index_vars, loader_vars, twin>>

BatchNext ==
    \/ main_line
    \/ main_end

BatchSpec == BatchInit /\ [][BatchNext]_vars

(***************************************************************************)
(* Properties                                                              *)
(***************************************************************************)

\* two characters that are the same letter, whatever their case
same_letter(a, b) ==
    \/ a = b
    \/ \E i \in 1..26 : {a, b} = {UpperCase[i], LowerCase[i]}

\* word (given in lowercase) occurs in text, case-insensitively
mentions(text, word) ==
    \E i \in 1..Len(text) :
        /\ i + Len(word) - 1 <= Len(text)
        /\ \A j \in 1..Len(word) : same_letter(text[i + j - 1], word[j])

\* the answer, stringified and trimmed, starts with open and ends with close
delimited(answer, open, close) ==
    LET a == strip(str(answer))
    IN  a # <<>> /\ a[1] = open /\ a[Len(a)] = close

\* the longest run: Routing, Retrieving, Planning, then four nodes per attempt
\* and one Repairing step between two attempts
within_run_length == steps <= 3 + 4 * (repairs + 1) + repairs /\ repairs < MaxRepairCount

\* a node of the graph is about to run (the guard of Next)
node_to_run ==
    pc \in {"router", "retriever", "planner", "sql_generator", "executor", "synthesizer",
            "validator", "repair"}

\* C1: every run reaches Done after finitely many transitions, whatever the
\* route, the step failures and the Completion Service outputs: a run is never
\* left before Done with no node to run, and its length is bounded.
C1_ReachesDone == (pc = "Done" \/ node_to_run) /\ within_run_length

\* C2: a run in which every Executing step fails with a query-execution error
\* does not raise and ends in Done after exactly 2 repair attempts, with
\* repair_count = 2 and errors non-empty.
C2_TwoRepairAttempts ==
    (execs > 0 /\ exec_errors = execs) =>
        /\ pc # "Aborted"
        /\ pc = "Done" => (repairs = 2 /\ repair_count = 2 /\ errors # <<>>)

\* C3: a run routed rag never enters SqlGenerating or Executing, repairs included.
C3_RagNeverRunsSql == route = "rag" => pc \notin {"sql_generator", "executor"}

\* C4: once Routing has started no step failure aborts the run.
C4_FailuresAreCaptured == pc # "Aborted"

\* the route the keyword heuristic of the specification gives a question
RouteByKeywords(q) ==
    IF mentions(q, <<"a","v","e","r","a","g","e"," ","o","r","d","e","r"," ","v","a","l",
                     "u","e">>) THEN "hybrid"
    ELSE IF mentions(q, <<"p","o","l","i","c","y">>) \/ mentions(q, <<"c","a","l","e","n","d","a","r">>) THEN "rag"
    ELSE "sql"

\* C5: with no Completion Service configured no step raises and no service call
\* is made; the run reaches Done with the keyword route, the placeholder
\* constraints (after Planning), the sentinel query (after SqlGenerating) and the
\* placeholder answer (after Synthesizing).
C5_NoServiceFallbacks ==
    /\ [](lm = "none" =>
            /\ pc # "Aborted"
            /\ resp = NoCall
            /\ (pc # "router" => route = RouteByKeywords(question))
            /\ (route \in {"rag", "hybrid"} /\ pc \notin {"router", "retriever", "planner"}
                    => constraints = CONSTRAINTS_NO_LM)
            /\ (sql_query # <<>> => sql_query = SQL_LM_NOT_CONFIGURED)
            /\ (route \in {"sql", "hybrid"} /\ pc \notin {"router", "retriever", "planner",
                                                        "sql_generator"}
                    => sql_query = SQL_LM_NOT_CONFIGURED)
            /\ (pc \in {"validator", "repair", "Done"} => final_answer = Str(ANSWER_NO_LM)))
    /\ [](lm = "none" => ((pc = "Done" \/ node_to_run) /\ within_run_length))

\* a hybrid run without a Completion Service that ended with every fallback in place
C5_Witness ==
    /\ lm = "none"
    /\ pc = "Done"
    /\ route = "hybrid"
    /\ constraints = CONSTRAINTS_NO_LM
    /\ sql_query = SQL_LM_NOT_CONFIGURED
    /\ final_answer = Str(ANSWER_NO_LM)

\* C6: with no Completion Service configured, no step appends to errors on account
\* of the absence (only Executing and Validating, which report database and format
\* failures, may append), and with nothing else failing no repair is made.
C6_AbsenceIsNoError ==
    /\ [][(lm = "none" /\ pc \in {"router", "retriever", "planner", "sql_generator",
                                  "synthesizer"}) => errors' = errors]_vars
    /\ []((lm = "none" /\ db = "ok" /\ format_hint = <<>>) => repairs = 0)

\* C7: repair_count never decreases; it changes only at a Validating step, by
\* exactly 1 and with errors non-empty; it stays within 0..2; and a Validating
\* step that leaves repair_count >= 2 is followed by Done.
C7_RepairCount ==
    /\ [][/\ repair_count' >= repair_count
          /\ repair_count' # repair_count =>
                (pc = "validator" /\ repair_count' = repair_count + 1 /\ errors' # <<>>)]_vars
    /\ [](repair_count \in 0..2)
    /\ [][(pc = "validator" /\ repair_count' >= 2) => pc' = "Done"]_vars

\* a run that ended with the budget used up and errors left
C7_Witness == pc = "Done" /\ repair_count = 2 /\ errors # <<>>

\* C8: when Classify is unavailable, raises or returns an empty or null route, the
\* stored route is the keyword route of the question (a function of the question
\* text alone).
C8_FallbackRoute ==
    [][(/\ pc = "router"
        /\ \/ resp'.kind \in {"none", "raise"}
           \/ resp'.kind = "ok" /\ resp'.val \in {None, Str(<<>>)})
            => route' = RouteByKeywords(question)]_vars

\* Classify raised on a question that names both a policy and the average order value
C8_Witness ==
    /\ pc # "router"
    /\ resp.op = "classify"
    /\ resp.kind = "raise"
    /\ mentions(question, <<"p","o","l","i","c","y">>)
    /\ route = "hybrid"

\* C9: a non-empty Classify output gives rag if it mentions rag, else hybrid if it
\* mentions hybrid, else sql; after Routing the route is one of the three.
C9_NormalizedRoute ==
    /\ [][(pc = "router" /\ resp'.kind = "ok" /\ truthy(resp'.val)) =>
            route' = IF mentions(resp'.val.v, <<"r","a","g">>) THEN "rag"
                     ELSE IF mentions(resp'.val.v, <<"h","y","b","r","i","d">>) THEN "hybrid"
                     ELSE "sql"]_vars
    /\ [](pc # "router" => route \in {"rag", "sql", "hybrid"})

\* Classify answered with a text that mentions both hybrid and rag
C9_Witness ==
    /\ pc # "router"
    /\ resp.op = "classify"
    /\ resp.kind = "ok"
    /\ truthy(resp.val)
    /\ mentions(resp.val.v, <<"h","y","b","r","i","d">>)
    /\ route = "rag"

\* C10: for a non-empty answer, a hint containing "list" yields an error unless
\* the answer is [ ] delimited, and a hint containing "json" or "{" yields an error
\* unless it is { } delimited, whatever else the hint contains.
C10_EveryKeywordChecked ==
    [][(pc = "validator" /\ errors = <<>> /\ truthy(final_answer)) =>
        /\ (contains(format_hint, <<"l","i","s","t">>) /\ ~delimited(final_answer, "[", "]"))
                => errors' # <<>>
        /\ ((contains(format_hint, <<"j","s","o","n">>) \/ contains(format_hint, <<"{">>))
                /\ ~delimited(final_answer, "{", "}"))
                => errors' # <<>>]_vars

\* the hint names one of the checked formats, in any letter case
names_a_format(hint) ==
    \/ mentions(hint, <<"i","n","t">>)
    \/ mentions(hint, <<"f","l","o","a","t">>)
    \/ mentions(hint, <<"l","i","s","t">>)
    \/ mentions(hint, <<"j","s","o","n">>)
    \/ mentions(hint, <<"{">>)

\* C11: an empty or null final answer yields exactly one validation error whatever
\* the format hint is, and a non-empty answer whose hint names none of int, float,
\* list, json, { yields no validation error.
C11_EmptyAnswerAndNoFormat ==
    [][(pc = "validator" /\ errors = <<>>) =>
        /\ final_answer \in {None, Str(<<>>)} => Len(errors') = 1
        /\ (final_answer \notin {None, Str(<<>>)} /\ ~names_a_format(format_hint))
                => errors' = <<>>]_vars

\* an empty answer validated under no hint at all, and reported once
C11_Witness ==
    /\ pc # "validator"
    /\ final_answer = Str(<<>>)
    /\ format_hint = <<>>
    /\ Len(errors) = 1

\* C12: every connection opened by Connect is closed on every exit path of its
\* scoped use: once the with statement is left (normally, by an exception in its
\* block, or by a failure inside Connect itself) no connection is open.
C12_ConnectionsReleased == tool_pc \in {"exited", "failed"} => open_conns = 0

\* C13: Execute on a connected tool either returns the statement's rows or raises
\* QueryExecutionError (sqlite3.Error) whose message holds the engine's message
\* and the query text; it never fails in any other way.
C13_ExecuteOutcomes ==
    (ret.op = "execute_sql" /\ ret.conn = "open") =>
        \/ ret.kind = "ok" /\ ret.val \in RowSets \cup {<<"row1">>}
        \/ /\ ret.kind = "raise"
           /\ ret.exc = "sqlite3.Error"
           /\ contains(ret.val, ret.arg)
           /\ \E e \in EngineErrors : contains(ret.val, e)

\* the characters of text that are not square brackets
unbracketed(text) == {i \in 1..Len(text) : text[i] \notin {"[", "]"}}

C15_FixedOrder ==
    << <<"C","a","t","e","g","o","r","i","e","s">>, <<"C","u","s","t","o","m","e","r","s">>, <<"O","r","d","e","r"," ","D","e","t","a","i","l",
                                            "s">>, <<"O","r","d","e","r","s">>,
       <<"P","r","o","d","u","c","t","s">>, <<"S","u","p","p","l","i","e","r","s">> >>

\* C15: GetAllSchemas returns the schemas of exactly the six canonical tables in
\* the order Categories, Customers, Order Details, Orders, Products, Suppliers (a
\* function of the database alone, so the same on every call), and fails as a
\* whole if any canonical table is missing.
C15_AllSchemas ==
    (ret.op = "get_all_schemas" /\ ret.conn = "open") =>
        IF \A i \in 1..6 : C15_FixedOrder[i] \in db_tables
        THEN /\ ret.kind = "ok"
             /\ ret.val = join(<<"\n", "\n">>,
                    [i \in 1..6 |-> table_schema(C15_FixedOrder[i], "open", db_tables).val])
        ELSE ret.kind = "raise"

\* all six schemas were returned from a complete database
C15_Witness ==
    /\ ret.op = "get_all_schemas"
    /\ ret.kind = "ok"
    /\ db_tables = NorthwindTables
    /\ startswith(ret.val, <<"C","R","E","A","T","E"," ","T","A","B","L","E"," ","C","a",
                             "t","e","g","o","r","i","e","s","(">>)
    /\ endswith(ret.val, <<"C","R","E","A","T","E"," ","T","A","B","L","E"," ","S","u","p",
                           "p","l","i","e","r","s","(","I","d"," ","I","N","T","E","G","E",
                           "R",")">>)

\* how many chunks come before chunk i in the ranking: those that score higher,
\* and those that score the same and stand earlier in the index
rank_of(doc_scores, i) ==
    Cardinality({j \in DOMAIN doc_scores :
                    \/ doc_scores[j] > doc_scores[i]
                    \/ doc_scores[j] = doc_scores[i] /\ j < i})

\* C16: search returns the first top_k chunks of the ranking by descending
\* score, equal scores in chunk order, without the chunks whose score is not
\* positive: at most top_k entries, none with score <= 0, and nothing at all
\* for a query that matches no chunk
C16_Search ==
    (last_search # NoSearch /\ retriever.bm25 = "built") =>
        LET doc_scores == scores[last_search.query]
            out  == last_search.out
            hits == {i \in DOMAIN doc_scores :
                        rank_of(doc_scores, i) < last_search.top_k /\ doc_scores[i] > 0}
        IN  /\ Len(out) = Cardinality(hits)
            /\ \A p \in 1..Len(out) : \E i \in hits :
                  /\ rank_of(doc_scores, i) = p - 1
                  /\ out[p] = [id |-> retriever.doc_ids[i],
                               content |-> retriever.documents[i],
                               score |-> doc_scores[i]]
            /\ Len(out) <= last_search.top_k
            /\ \A p \in 1..Len(out) : out[p].score > 0
            /\ (\A i \in DOMAIN doc_scores : doc_scores[i] <= 0) => out = <<>>

\* a search for three chunks that returned two with the same score, the third
\* of the ranking being dropped for its score
C16_Witness ==
    /\ last_search.top_k = 3
    /\ Len(retriever.documents) = 3
    /\ Len(last_search.out) = 2
    /\ last_search.out[1].score = last_search.out[2].score
    /\ last_search.out[1].content = <<"a">>
    /\ last_search.out[2].content = <<"c">>

nothing_to_index ==
    \/ corpus.path # "dir"
    \/ \A f \in 1..Len(corpus.files) :
          corpus.files[f].content.t # "str" \/ chunks_of(corpus.files[f].content.v) = <<>>

\* C19: over a docs path that is absent, is not a directory or holds no
\* documents, construction completes with an empty index and every search
\* returns the empty sequence
C19_EmptyIndex ==
    [][nothing_to_index =>
         /\ retriever'.documents = <<>> /\ retriever'.doc_ids = <<>>
         /\ retriever'.bm25 = "none"
         /\ retriever.bm25 # "unset" =>
               last_search' # NoSearch /\ last_search'.out = <<>>]_vars

\* a search with top_k 3 on the index built over a path that is not a directory
C19_Witness ==
    /\ corpus.path = "file"
    /\ retriever.bm25 = "none"
    /\ last_search.top_k = 3
    /\ last_search.query = <<"z", "z", "z">>
    /\ last_search.out = <<>>\* the ids of n chunks of the file called name: its stem, "::chunk", and the
\* indices from 0 up
ids_from_zero(name, n) ==
    [i \in 1..n |-> stem(name) \o <<":",":","c","h","u","n","k">> \o index_text(i - 1)]

\* the ids, file after file, when file f gave count[f] chunks
RECURSIVE ids_by_file(_, _, _)
ids_by_file(files, count, f) ==
    IF f > Len(files) THEN <<>>
    ELSE ids_from_zero(files[f].name, count[f]) \o ids_by_file(files, count, f + 1)

\* documents and doc_ids go together, no chunk is blank, and the ids are the
\* files' stems with indices contiguous from 0 for each file in document order
chunks_well_formed ==
    /\ Len(retriever.documents) = Len(retriever.doc_ids)
    /\ \A i \in 1..Len(retriever.documents) :
          \E c \in 1..Len(retriever.documents[i]) :
             retriever.documents[i][c] \notin Whitespace
    /\ \E count \in [1..Len(globbed(corpus)) -> 0..Len(retriever.documents)] :
          retriever.doc_ids = ids_by_file(globbed(corpus), count, 1)

\* C18: after Build documents and doc_ids have equal length, no chunk is empty
\* or whitespace-only, every id is '<stem>::chunk<i>' with the indices of each
\* source file contiguous from 0 in document order, and no id occurs twice
C18_BuildInvariant ==
    retriever.bm25 # "unset" =>
        /\ chunks_well_formed
        /\ \A i, j \in 1..Len(retriever.doc_ids) :
              i # j => retriever.doc_ids[i] # retriever.doc_ids[j]\* the characters of a word
WordChars ==
    {UpperCase[i] : i \in 1..26} \cup {LowerCase[i] : i \in 1..26} \cup Digits \cup {"_"}

\* FROM or JOIN stands at offset i of s as a word of its own
keyword_word_at(s, i) ==
    keyword_at(s, i) /\ (i = 0 \/ s[i] \notin WordChars)

\* the identifier after the keyword at offset i of s: past the whitespace, a
\* double-quoted identifier whole, or a bare one up to whitespace or a comma;
\* the empty text when no whitespace or no identifier follows
identifier_after(s, i) ==
    LET j == skip_while(s, i + 4, Whitespace)
        q == skip_until(s, j + 1, {"\""})
    IN  IF j = i + 4 THEN <<>>
        ELSE IF j < Len(s) /\ s[j + 1] = "\"" /\ q > j + 1 /\ q < Len(s)
        THEN SubSeq(s, j + 2, q)
        ELSE SubSeq(s, j + 1, skip_until(s, j, Whitespace \cup {","}))

\* the keyword at offset i of s is itself the identifier after a keyword
follows_keyword(s, i) ==
    \E k \in 0..(i - 5) : keyword_word_at(s, k) /\ skip_while(s, k + 4, Whitespace) = i

\* AS, ON and WHERE in any case
is_reserved(name) == upper(name) \in {<<"A","S">>, <<"O","N">>, <<"W","H","E","R","E">>}

\* the identifiers after the places in at, without the empty and the reserved
identifiers_after(s, at) ==
    {identifier_after(s, i) : i \in at}
        \ {name \in {identifier_after(s, i) : i \in at} : name = <<>> \/ is_reserved(name)}

\* C20: after a query ran, sql_tables holds without repetition exactly the
\* identifiers that follow a FROM or JOIN keyword in it, a quoted one whole
\* and a bare one up to whitespace or a comma, without AS, ON and WHERE: each
\* identifier after a keyword that is a word of its own is there, and
\* everything there follows a FROM or JOIN; the query over "Order Details"
\* and Products gives those two, and a query without FROM and JOIN gives none
C20_CitedTables ==
    [][(pc = "executor" /\ errors' = errors /\ sql_query # <<>>) =>
         LET got == {sql_tables'[k] : k \in 1..Len(sql_tables')}
             all == {i \in 0..Len(sql_query) : keyword_at(sql_query, i)}
             own == {i \in all : keyword_word_at(sql_query, i)
                                   /\ ~follows_keyword(sql_query, i)}
         IN  /\ identifiers_after(sql_query, own) \subseteq got
             /\ got \subseteq identifiers_after(sql_query, all)
             /\ Cardinality(got) = Len(sql_tables')
             /\ startswith(sql_query, <<"S","E","L","E","C","T"," ","*"," ","F","R","O","M",
                                        " ","\"","O","r","d","e","r"," ","D","e","t","a",
                                        "i","l","s","\""," ","A","S"," ","T","1"," ","J",
                                        "O","I","N"," ","P","r","o","d","u","c","t","s"," ",
                                        "A","S"," ","T","2"," ">>)
                   => got = {<<"O","r","d","e","r"," ","D","e","t","a","i","l","s">>, <<"P","r","o","d","u","c","t","s">>}
             /\ all = {} => got = {}]_vars

\* C21: within a run citations only grows: an entry that is in citations is
\* still in it after every later step, a repair's synthesis and a failing
\* synthesis included
C21_CitationsAppendOnly ==
    [][\A i \in 1..Len(citations) : \E j \in 1..Len(citations') :
           citations'[j] = citations[i]]_vars

\* C22: once confidence is set it lies between 0 and 1 (0 and 100 hundredths),
\* whatever value the Completion Service returned
C22_ConfidenceInUnitInterval ==
    confidence # None => (confidence.v >= 0 /\ confidence.v <= 100)\* the lines among the first n of the input that are not blank
lines_to_answer(n) == {i \in 1..n : f_in[i] # "blank"}

\* C23: the driver writes one output line for each input line (blank lines
\* aside), in input order, each before the next line is read, and a line that
\* fails, by its run or by not parsing, does not stop the lines after it
C23_OneLinePerInput ==
    /\ Len(f_out) = Cardinality(lines_to_answer(line_no))
    /\ \A i \in 1..Len(f_out) :
          /\ f_out[i].line \in lines_to_answer(line_no)
          /\ \A j \in 1..Len(f_out) : i < j => f_out[i].line < f_out[j].line
    /\ main_pc \in {"critical_error", "complete"} => line_no = Len(f_in)

\* C24: repair_count is the number of times Repairing was entered so far in
\* the run: the repairs that ran, and the one about to run
C24_CountsRepairs ==
    repair_count = repairs + (IF pc = "repair" THEN 1 ELSE 0)\* an error the format validation reports
is_format_error(e) ==
    \/ e = <<"F","i","n","a","l"," ","a","n","s","w","e","r"," ","i","s"," ","e","m","p",
             "t","y",".">>
    \/ startswith(e, <<"A","n","s","w","e","r"," ","'">>)
    \/ startswith(e, <<"V","a","l","i","d","a","t","i","o","n"," ","f","a","i","l","e","d",
                       ":"," ">>)

\* an error of SQL generation or SQL execution: neither a format error nor a
\* failed synthesis
is_sql_error(e) ==
    ~is_format_error(e) /\ ~startswith(e, <<"S","y","n","t","h","e","s","i","s"," ","f","a",
                                            "i","l","e","d",":"," ">>)

\* C25: a repair whose errors are format-validation failures only goes on to
\* the synthesizer, not to the SQL generator; a repair whose errors include an
\* SQL generation or execution failure goes on to the SQL generator
C25_RepairRouting ==
    [][pc = "repair" =>
         /\ (\A i \in 1..Len(errors) : is_format_error(errors[i]))
               => pc' = "synthesizer"
         /\ (\E i \in 1..Len(errors) : is_sql_error(errors[i]))
               => pc' = "sql_generator"]_vars\* the generator's output is null, empty or only whitespace
no_query_text(v) == ~truthy(v) \/ strip(v.v) = <<>>

\* C26: when the generator's output is null or empty after post-processing
\* (a raw output of whitespace included), an error is appended and sql_query
\* becomes the sentinel query; and in every case the SQL generator is followed
\* by the executor
C26_EmptySqlIsAnError ==
    [][pc = "sql_generator" =>
         /\ pc' = "executor"
         /\ (resp'.op = "generate" /\ resp'.kind = "ok" /\ no_query_text(resp'.val))
               => /\ Len(errors') = Len(errors) + 1
                  /\ sql_query' = SQL_RETURNED_NONE]_vars

\* C27: a failing execution appends exactly one error and the run goes on to
\* the synthesizer; a successful one appends none, stores the statement's rows
\* in sql_results and the extractor's table set for the executed query in
\* sql_tables; without a usable database the execution fails
C27_ExecutingStep ==
    [][pc = "executor" =>
         /\ pc' = "synthesizer"
         /\ \/ /\ Len(errors') = Len(errors) + 1
               /\ SubSeq(errors', 1, Len(errors)) = errors
            \/ /\ errors' = errors
               /\ db = "ok"
               /\ sql_results' \in RowSets \cup {<<"row1">>}
               /\ {sql_tables'[k] : k \in 1..Len(sql_tables')} = table_names(sql_query)
               /\ Len(sql_tables') = Cardinality(table_names(sql_query))]_vars

\* the first execution failed in the engine, the repair's execution returned
\* a row and the two tables of its query were stored
C27_Witness ==
    /\ pc = "synthesizer"
    /\ execs = 2
    /\ exec_errors = 1
    /\ contains(feedback, <<"S","Q","L"," ","E","r","r","o","r",":"," ">>)
    /\ errors = <<>>
    /\ sql_results = <<"row1">>
    /\ Len(sql_tables) = 2

\* C28: with errors already there the validator runs no format check and
\* leaves errors as it found them; with none it appends its findings for
\* final_answer and format_hint and nothing else
C28_ValidatingFrame ==
    [][pc = "validator" =>
         IF errors # <<>>
         THEN errors' = errors
         ELSE errors' = validation_errors(final_answer, lower(format_hint))]_vars

\* a validation that found the generator's error and reported nothing about
\* an answer without the integer the hint asks for
C28_Witness ==
    /\ pc = "repair"
    /\ format_hint = <<"i","n","t">>
    /\ ~has_digit_run(str(final_answer))
    /\ Len(errors) = 1
    /\ startswith(errors[1], <<"D","S","P","y"," ","L","M"," ","n","o","t"," ","c","o","n",
                               "f","i","g","u","r","e","d">>)

\* C29: right after a repair errors is empty and feedback is 'Previous attempt
\* failed with errors: ' followed by the failed attempt's errors joined by
\* '; ' in their order; before the first repair of a run feedback is empty
C29_FeedbackAfterRepair ==
    [][/\ repairs = 0 => feedback = <<>>
       /\ repairs' = 0 => feedback' = <<>>
       /\ pc = "repair" =>
            /\ errors # <<>>
            /\ errors' = <<>>
            /\ feedback' = <<"P","r","e","v","i","o","u","s"," ","a","t","t","e","m","p",
                             "t"," ","f","a","i","l","e","d"," ","w","i","t","h"," ","e",
                             "r","r","o","r","s",":"," ">>
                              \o join(<<";"," ">>, errors)]_vars

\* the run is right after its repair, which joined two errors into feedback
C29_Witness ==
    /\ repairs = 1
    /\ pc = "sql_generator"
    /\ errors = <<>>
    /\ startswith(feedback, <<"P","r","e","v","i","o","u","s"," ","a","t","t","e","m","p",
                              "t"," ","f","a","i","l","e","d"," ","w","i","t","h"," ","e",
                              "r","r","o","r","s",":"," ","D","S","P","y"," ","L","M"," ",
                              "n","o","t"," ","c","o","n","f","i","g","u","r","e","d">>)
    /\ contains(feedback, <<".",";"," ","D","a","t","a","b","a","s","e"," ","f","i","l","e",
                            " ","n","o","t"," ","f","o","u","n","d">>)

\* C30: a run routed sql never enters the retriever or the planner and its
\* context stays empty; a run routed rag or hybrid goes from the router to the
\* retriever and from there to the planner, before any SQL generation or
\* synthesis; the router runs once, and nothing, a repair included, leads back
\* to the router, the retriever or the planner
C30_RetrievalOnce ==
    [][/\ pc' # "router"
       /\ pc = "router" =>
            /\ route' \in {"rag", "hybrid"} => pc' = "retriever"
            /\ route' = "sql" => pc' = "sql_generator"
       /\ pc' = "retriever" => pc = "router" /\ route' \in {"rag", "hybrid"}
       /\ pc = "retriever" => pc' = "planner"
       /\ pc' = "planner" => pc = "retriever"
       /\ pc' = "sql_generator" =>
            \/ pc = "router" /\ route' = "sql"
            \/ pc = "planner" /\ route = "hybrid"
            \/ pc = "repair"
       /\ pc' = "synthesizer" =>
            \/ pc = "planner" /\ route = "rag"
            \/ pc \in {"executor", "repair"}
       /\ pc # "router" => route' = route
       /\ route' = "sql" => rag_context' = <<>>]_vars

\* a hybrid run, after retrieval, planning and a first attempt, is sent by its
\* repair to the SQL generator
C30_Witness ==
    /\ route = "hybrid"
    /\ repairs = 1
    /\ pc = "sql_generator"
    /\ rag_context # <<>>
    /\ constraints # <<>>

\* the word SELECT in lower case
SELECT_WORD == <<"s","e","l","e","c","t">>

\* the text ends with exactly one ';'
one_semicolon_at_end(q) ==
    /\ q # <<>>
    /\ q[Len(q)] = ";"
    /\ Len(q) > 1 => q[Len(q) - 1] # ";"

\* C31: for a raw generator output that contains SELECT (in any case), the
\* post-processed query is text of the output from an occurrence of SELECT on:
\* it begins with SELECT, what stands before its final ';' is part of the
\* output, it has no leading ']' or whitespace and it ends with exactly one ';'
C31_CleanedQuery ==
    [][(/\ pc = "sql_generator"
        /\ resp'.op = "generate" /\ resp'.kind = "ok" /\ truthy(resp'.val)
        /\ contains(lower(resp'.val.v), SELECT_WORD))
         => /\ startswith(lower(sql_query'), SELECT_WORD)
            /\ contains(resp'.val.v, rstrip_chars(sql_query', {";"}))
            /\ sql_query'[1] \notin Whitespace \cup {"]"}
            /\ one_semicolon_at_end(sql_query')]_vars

\* the citations the Completion Service returned: the entries of its list, or
\* the one entry its text names once the brackets, quotes and blanks around it
\* are taken off; none when it returned nothing
service_citations(r) ==
    IF r.kind # "ok" \/ ~truthy(r.val.citations) THEN <<>>
    ELSE IF r.val.citations.t = "list" THEN r.val.citations.v
    ELSE LET inner == strip_chars(r.val.citations.v, {"[", "]", "'", "\"", " "})
         IN  IF inner = <<>> THEN <<>> ELSE <<inner>>

\* the entry 'SQL: t1, t2, ...' for the given tables
sql_citation(tables) == <<"S","Q","L",":"," ">> \o join(<<","," ">>, tables)

\* C32: after a synthesizer step that did not fail, citations is the
\* Completion Service's citations followed by exactly one entry
\* 'SQL: t1, t2, ...' listing sql_tables when sql_tables is not empty, and the
\* Completion Service's citations alone when sql_tables is empty
C32_MergedCitations ==
    [][(pc = "synthesizer" /\ errors' = errors) =>
         citations' = service_citations(resp') \o
                      (IF sql_tables # <<>> THEN <<sql_citation(sql_tables)>> ELSE <<>>)]_vars

\* a synthesis has merged one document citation with the entry for two tables
C32_Witness ==
    /\ pc = "validator"
    /\ resp.op = "synthesize" /\ resp.kind = "ok"
    /\ Len(sql_tables) = 2
    /\ Len(citations) = 2
    /\ citations[1] = <<"p","o","l","i","c","y",":",":","c","h","u","n","k","0">>
    /\ citations[2] = sql_citation(sql_tables)

\* C33: the SQL generator module is constructed at most once in a process,
\* and every call of the loader returns the same instance, whichever threads
\* make the calls
C33_BuiltOnce ==
    /\ instances <= 1
    /\ Cardinality(returned) <= 1

\* the citations hold an entry 'SQL: ...'
cites_tables(cs) == \E i \in 1..Len(cs) : startswith(cs[i], <<"S","Q","L",":"," ">>)

\* C34: whenever the citations a synthesizer step produces hold an entry
\* 'SQL: ...', the most recent executor step of the run succeeded and the
\* tables listed are those extracted from the query that step executed
C34_CitedTablesAreCurrent ==
    [][(pc = "synthesizer" /\ cites_tables(citations')) =>
         /\ last_exec.ran /\ last_exec.ok
         /\ \E i \in 1..Len(citations') :
               \E names \in orderings(table_names(last_exec.query)) :
                   citations'[i] = sql_citation(names)]_vars

\* C35: a failing executor step appends exactly one entry to errors and
\* changes nothing else of the run state: sql_query, sql_results, sql_tables,
\* repair_count, feedback, constraints, the context and the rest keep the
\* values they had on entry
C35_FailedExecutionFrame ==
    [][(pc = "executor" /\ ~last_exec'.ok) =>
         /\ Len(errors') = Len(errors) + 1
         /\ SubSeq(errors', 1, Len(errors)) = errors
         /\ UNCHANGED <<sql_query, sql_results, sql_tables, repair_count, feedback,
                        constraints, rag_context, question, format_hint, route,
                        final_answer, citations, confidence, explanation>>]_vars

\* the execution of a repair attempt has failed, and the rows and tables of
\* the first attempt are still there
C35_Witness ==
    /\ pc = "synthesizer"
    /\ execs = 2
    /\ last_exec.ran /\ ~last_exec.ok
    /\ Len(errors) = 1
    /\ sql_results = <<"row1">>
    /\ sql_tables # <<>>
    /\ feedback # <<>>

\* the answer passes the one format check the hint selects: the first of
\* int, float, list and json (or an opening brace) that the hint names
passes_applied_check(answer, hint) ==
    LET text == strip(str(answer))
    IN  IF contains(hint, <<"i","n","t">>) THEN has_digit_run(str(answer))
        ELSE IF contains(hint, <<"f","l","o","a","t">>) THEN has_digit_run(str(answer))
        ELSE IF contains(hint, <<"l","i","s","t">>)
        THEN text # <<>> /\ text[1] = "[" /\ text[Len(text)] = "]"
        ELSE IF contains(hint, <<"j","s","o","n">>) \/ contains(hint, <<"{">>)
        THEN text # <<>> /\ text[1] = "{" /\ text[Len(text)] = "}"
        ELSE TRUE

\* C36: when a run is done either errors is empty or repair_count is 2; and
\* when errors is empty the final answer is not empty and passes the format
\* check applied for the format hint
C36_DoneStates ==
    pc = "Done" =>
        /\ errors = <<>> \/ repair_count = MaxRepairCount
        /\ errors = <<>> =>
              /\ truthy(final_answer)
              /\ passes_applied_check(final_answer, lower(format_hint))

\* a run is done with an error left after the repair budget was used up
C36_Witness ==
    /\ pc = "Done"
    /\ errors # <<>>
    /\ repair_count = MaxRepairCount
    /\ repairs = 1

\* C37: every query the executor passes to execute_sql begins, in any case,
\* with SELECT, whatever the generator returned
C37_OnlySelectExecuted ==
    (last_exec.ran /\ db = "ok") => startswith(lower(last_exec.query), SELECT_WORD)

\* the placeholder constraints stored when the extraction fails
CONSTRAINTS_ON_ERROR == <<"N","o"," ","s","p","e","c","i","f","i","c"," ","c","o","n","s",
                          "t","r","a","i","n","t","s"," ","f","o","u","n","d"," ","(","E",
                          "r","r","o","r",")",".">>

\* C38: the router, the retriever and the planner never append to errors,
\* which is empty while they run; a Completion Service failure in the router
\* gives the keyword fallback route and one in the planner the placeholder
\* constraints, and after either the run goes on to its next node
C38_EarlyFailuresAbsorbed ==
    [][(pc \in {"router", "retriever", "planner"}) =>
         /\ errors = <<>> /\ errors' = <<>>
         /\ repair_count' = 0
         /\ pc # "retriever" => pc' \in {"retriever", "sql_generator", "synthesizer"}
         /\ (pc = "router" /\ resp'.kind = "raise") => route' = keyword_route(question)
         /\ (pc = "planner" /\ resp'.kind = "raise") =>
               constraints' = CONSTRAINTS_ON_ERROR]_vars

\* the constraint extraction has failed and the run goes on without an error
C38_Witness ==
    /\ resp.op = "plan" /\ resp.kind = "raise"
    /\ constraints = CONSTRAINTS_ON_ERROR
    /\ errors = <<>>
    /\ pc \in {"sql_generator", "synthesizer"}

\* C39: two runs on the same question, hint, corpus and database that meet
\* the same outcomes of the Completion Service and of the database end with
\* the same tables and the same citations, the order of the names in the
\* entry 'SQL: ...' included
C39_Deterministic ==
    (pc = "validator" /\ twin.pc = "validator") =>
        /\ twin.sql_tables = sql_tables
        /\ twin.citations = citations

\* C40: a bare table name that ends the query is stored in sql_tables, and
\* cited in the entry 'SQL: ...', as the name itself: without the ';' that
\* ends the statement
C40_BareTableName ==
    /\ \A i \in 1..Len(sql_tables) : ~endswith(sql_tables[i], <<";">>)
    /\ \A i \in 1..Len(citations) :
          startswith(citations[i], <<"S","Q","L",":"," ">>) => ~endswith(citations[i], <<";">>)










































==========================================================================
